---- MODULE Spec2Model ----
(***************************************************************************)
(* Offline-first inventory synchronisation and checkout of the POS client. *)
(*                                                                         *)
(* productService (getProducts, batchUpdateProductStock,                   *)
(* checkStockAvailability, deductStockAfterCheckout), storageService       *)
(* (getProducts, saveProducts), the cart of OrdersScreen and               *)
(* handleSubmitTransaction of CheckoutModal.  Every `await` of the source  *)
(* on the network probe, the remote store or the local store is one step;  *)
(* local computation between two awaits belongs to the step that follows   *)
(* the first of them.                                                      *)
(***************************************************************************)
EXTENDS Integers, Sequences, FiniteSets, TLC

\* ------------------------------------------------------------------ bounds
\* Highest stock of a product at the start, highest quantity of a cart line,
\* and longest request list of a stand-alone checkStockAvailability.
MaxStock == 2
MaxQuantity == 2
MaxLines == 2

\* The catalogue, the ids the backend hands out to transactions, and the
\* callers that may run a service call at the same time.
ProductIds == {1, 2}
TransactionIds == {1, 2}
Callers == {1, 2}
\* The calls of a catalogue session, the instants of the millisecond clock,
\* and the stock values a catalogue screen sets.
CallSlots == {1, 2}
Instants == {0, 1}
StockValues == {0, 1}
\* The checkout modal of OrdersScreen: one per client.
UI == CHOOSE p \in Callers : \A q \in Callers : p <= q

\* Unit price of a product (test data; product 1 costs 50 as in Scenario A).
PriceOf(id) == IF id = 1 THEN 50 ELSE 10 * id

\* Texts typed into the cash field, as the amounts parseFloat gives;
\* << >> is the empty text.
CashTexts == {<< >>, <<120>>}

VARIABLES
  net,               \* NetInfo state: [isConnected, isInternetReachable]
  products,          \* remote table products, newest first: <<[id, price, stock]>>
  cache,             \* AsyncStorage "products": the cached list
  transactions,      \* remote table transactions: set of rows
  transaction_items, \* remote table transaction_items: set of rows
  st,                \* per caller: position and locals of the running handler
  initStock,         \* the authoritative stock at the start (never changes)
  env,               \* history of the running attempt: what went wrong around it
  req, avail, result, \* inputs and result of a stand-alone checkStockAvailability
  clock,               \* Date.now(): the millisecond clock of the device
  storage,           \* AsyncStorage "user-session" and "auth-token"
  live               \* the session the supabase client holds: << >> or <<session>>

vars == <<net, products, cache, transactions, transaction_items, st,
          initStock, env, req, avail, result, clock, storage, live>>

\* ------------------------------------------------------------ pure helpers
\* Array.prototype.find by id: the first match, as a sequence of length 0 or 1.
Find(list, id) ==
  LET idx == {i \in 1..Len(list) : list[i].id = id}
  IN IF idx = {} THEN << >>
     ELSE <<list[CHOOSE i \in idx : \A j \in idx : i <= j]>>

\* product?.stock || 0
StockOrZero(found) == IF found = << >> THEN 0 ELSE found[1].stock

Max(a, b) == IF a >= b THEN a ELSE b

\* cart.reduce((sum, item) => sum + item.price * item.quantity, 0)
RECURSIVE total(_)
total(cart) ==
  IF cart = << >> THEN 0
  ELSE Head(cart).price * Head(cart).quantity + total(Tail(cart))

\* state.isConnected && state.isInternetReachable
checkIsOnline(state) == state.isConnected /\ state.isInternetReachable

\* parseFloat(cashGiven) of a non-empty text
parseFloat(text) == text[1]

\* change = cashGiven ? parseFloat(cashGiven) - total : 0
change(cashGiven, tot) == IF cashGiven # << >> THEN parseFloat(cashGiven) - tot ELSE 0

\* A variant that accepts any amount that was typed.
isValidPaymentAnyAmount(cashGiven, tot) == cashGiven # << >>

\* isValidPayment = cashGiven && parseFloat(cashGiven) >= total
isValidPayment(cashGiven, tot) == cashGiven # << >> /\ parseFloat(cashGiven) >= tot

\* A variant that also reports a line asking for exactly what is there.
isShortOrEqual(found, item) == found = << >> \/ found[1].stock <= item.quantity

\* if (!product || product.stock < item.quantity)
isShort(found, item) == found = << >> \/ found[1].stock < item.quantity

\* The loop of checkStockAvailability over the request list, against the
\* view `list` that getProducts returned.
insufficientItems(items, list) ==
  LET Short(item) == isShort(Find(list, item.id), item)
      Entry(item) == [id |-> item.id, requested |-> item.quantity,
                      available |-> StockOrZero(Find(list, item.id))]
      RECURSIVE Loop(_)
      Loop(rest) == IF rest = << >> THEN << >>
                    ELSE IF Short(Head(rest))
                         THEN <<Entry(Head(rest))>> \o Loop(Tail(rest))
                         ELSE Loop(Tail(rest))
  IN Loop(items)

checkStockAvailability(items, list) ==
  LET ins == insufficientItems(items, list)
  IN [success |-> ins = << >>, insufficientItems |-> ins]

\* A variant without the floor at zero.
newStockNoFloor(found, quantity) == StockOrZero(found) - quantity

\* newStock: Math.max(0, (product?.stock || 0) - item.quantity)
newStock(found, quantity) == Max(0, StockOrZero(found) - quantity)

\* items.map(item => ({productId, newStock})) of deductStockAfterCheckout
stockUpdates(items, list) ==
  [i \in 1..Len(items) |->
     [productId |-> items[i].id,
      newStock |-> newStock(Find(list, items[i].id), items[i].quantity)]]

\* updates.find(u => u.productId === id): first match, length 0 or 1
FindUpdate(updates, id) ==
  LET idx == {i \in 1..Len(updates) : updates[i].productId = id}
  IN IF idx = {} THEN << >>
     ELSE <<updates[CHOOSE i \in idx : \A j \in idx : i <= j]>>

\* A variant without the .eq("id", ...) filter.
remoteSetStockAll(table, pid, s) == [i \in 1..Len(table) |-> [table[i] EXCEPT !.stock = s]]

\* A variant that leaves the cached list as it is.
applyNothing(list, updates) == list

\* products.map(...) of batchUpdateProductStock over the cached list
applyUpdates(list, updates) ==
  [i \in 1..Len(list) |->
     LET u == FindUpdate(updates, list[i].id)
     IN IF u # << >> THEN [list[i] EXCEPT !.stock = u[1].newStock] ELSE list[i]]

\* UPDATE products SET stock = s WHERE id = pid, on the remote table
remoteSetStock(table, pid, s) ==
  [i \in 1..Len(table) |->
     IF table[i].id = pid THEN [table[i] EXCEPT !.stock = s] ELSE table[i]]

\* ------------------------------------------------------------------ state
online == [isConnected |-> TRUE, isInternetReachable |-> TRUE]
offline == [isConnected |-> FALSE, isInternetReachable |-> FALSE]
\* productService reads only the conjunction of the two flags.
NetStates == {online, offline}

Product(id, stock) == [id |-> id, price |-> PriceOf(id), stock |-> stock]

\* The remote table for a stock assignment, newest (highest id) first.
RECURSIVE TableOf(_, _)
TableOf(stock, ids) ==
  IF ids = {} THEN << >>
  ELSE LET n == CHOOSE i \in ids : \A j \in ids : i >= j
       IN <<Product(n, stock[n])>> \o TableOf(stock, ids \ {n})

\* useState initial values of CheckoutModal and OrdersScreen, and the
\* locals of the service calls before any call.
InitSt ==
  [pc |-> "orders", ctx |-> "none",
   cart |-> << >>, cashGiven |-> << >>, processing |-> FALSE,
   error |-> << >>, receipt |-> << >>,
   items |-> << >>, data |-> << >>, view |-> << >>,
   updates |-> << >>, idx |-> 0,
   transaction |-> << >>, deductOk |-> << >>,
   \* a direct call of a productService operation: its name, arguments and
   \* outcome ([kind |-> "return" or "throw", value])
   op |-> << >>, args |-> << >>, value |-> << >>, ret |-> << >>,
   \* history of the call: what checkIsOnline answered, how many calls so far
   \* and the outcomes of its remote row updates
   wasOnline |-> << >>, calls |-> 0, log |-> << >>,
   \* and the createProduct call just before it: [op, wasOnline, env, ret]
   prev |-> << >>,
   \* const networkState = await NetInfo.fetch() of authService
   networkState |-> << >>,
   \* OrdersScreen: the product the scanner shows with its chosen quantity
   scanning |-> FALSE, scannedProduct |-> << >>,
   \* history of the running attempt, read by the properties only
   wrote |-> {}, atSubmit |-> << >>, pre |-> << >>]

\* storageService KEYS, and the local store with neither key set.
KEYS == [SESSION |-> "user-session", AUTH_TOKEN |-> "auth-token"]
NoSession == [key \in {KEYS.SESSION, KEYS.AUTH_TOKEN} |-> << >>]

InitShared ==
  /\ net = online
  /\ initStock = [id \in ProductIds |-> MaxStock]
  /\ products = TableOf(initStock, ProductIds)
  \* nothing cached yet, or the cache left by the last successful list()
  /\ cache \in {<< >>, products}
  /\ transactions = {}
  /\ transaction_items = {}
  /\ st = [p \in Callers |-> InitSt]
  /\ env = "clean"
  /\ clock = 0
  /\ storage = NoSession
  /\ live = << >>

Init ==
  /\ InitShared
  /\ req = << >> /\ avail = << >> /\ result = << >>

\* History of the attempt of the checkout modal: "clean" while the network was
\* up and every call succeeded, "local" once only local-store calls failed,
\* "dirty" once the network was down or a remote call failed.
\* For a direct service call "both" tells a failed local-store call and a
\* failed or skipped remote call apart from "dirty" (remote only).
Env(p, kind) ==
  IF st[p].op # << >>
  THEN CASE kind = "ok" -> env
         [] kind = "remote" -> IF env \in {"local", "both"} THEN "both" ELSE "dirty"
         [] kind = "local" -> IF env \in {"dirty", "both"} THEN "both" ELSE "local"
  ELSE IF ~st[p].processing \/ env = "dirty" \/ kind = "ok" THEN env
  ELSE IF kind = "remote" THEN "dirty" ELSE "local"

\* A remote call can succeed only while the backend is reachable; it can
\* fail at any time ({data, error} with error set).
RemoteOutcomes == IF checkIsOnline(net) THEN {TRUE, FALSE} ELSE {FALSE}

Shared == <<net, products, cache, transactions, transaction_items>>
Pure == <<req, avail, result, initStock, clock, storage, live>>

\* ------------------------------------------------------------- environment
\* NetInfo reports a connectivity change.
NetChange ==
  /\ net' \in NetStates \ {net}
  /\ UNCHANGED <<products, cache, transactions, transaction_items, st>>
  /\ env' = IF st[UI].processing THEN "dirty" ELSE env
  /\ UNCHANGED Pure

\* ------------------------------------- the callers of productService.getProducts
\* The rest of the attempt's locals after it ended with an error.
Failed(s, message) ==
  [s EXCEPT !.pc = "form", !.ctx = "none", !.processing = FALSE, !.error = message,
            !.items = << >>, !.data = << >>, !.view = << >>, !.updates = << >>,
            !.idx = 0, !.transaction = << >>]

\* A variant that goes on to Step 1 whatever the check reports.
ValidateIgnored(s) == [s EXCEPT !.pc = "insert_tx", !.ctx = "none"]

\* CheckoutModal: stockCheck = await checkStockAvailability(cart);
\* if (!stockCheck.success) { setError(...); setProcessing(false); return }
ValidateResult(s) ==
  LET stockCheck == checkStockAvailability(s.items, s.view)
  IN IF ~stockCheck.success
     THEN Failed(s, <<"stock">>)
     ELSE [s EXCEPT !.pc = "insert_tx", !.ctx = "none"]

\* The locals of a finished deductStockAfterCheckout call.
Deducted(s, value) ==
  [s EXCEPT !.pc = "deducted", !.ctx = "none", !.deductOk = <<value>>,
            !.data = << >>, !.idx = 0, !.updates = << >>]

\* A variant that goes on to the updates whatever the re-check reports.
RecheckIgnored(s) == [s EXCEPT !.pc = "gp_online", !.ctx = "prepare"]

\* deductStockAfterCheckout: stockCheck = await checkStockAvailability(items);
\* if (!stockCheck.success) return false; else products = await getProducts()
RecheckResult(s) ==
  LET stockCheck == checkStockAvailability(s.items, s.view)
  IN IF ~stockCheck.success
     THEN Deducted(s, FALSE)
     ELSE [s EXCEPT !.pc = "gp_online", !.ctx = "prepare"]

\* deductStockAfterCheckout: updates = items.map(...), then
\* batchUpdateProductStock(updates) up to its first await (checkIsOnline)
Prepared(s) ==
  [s EXCEPT !.pc = "bu_online", !.ctx = "none",
            !.updates = stockUpdates(s.items, s.view),
            !.wrote = @ \cup {"batch"}]

\* History of a direct call: the answer of checkIsOnline, the outcome of a
\* remote row update.
Probed(s, answer) == IF s.op = << >> THEN s ELSE [s EXCEPT !.wasOnline = <<answer>>]
Logged(s, outcome) == IF s.op = << >> THEN s ELSE [s EXCEPT !.log = Append(@, outcome)]

\* A direct call of a productService operation ends: return value / throw error
Returned(s, value) ==
  [s EXCEPT !.pc = "returned", !.ctx = "none",
            !.ret = <<[kind |-> "return", value |-> value]>>, !.data = << >>]
Thrown(s) ==
  [s EXCEPT !.pc = "returned", !.ctx = "none",
            !.ret = <<[kind |-> "throw", value |-> << >>]>>, !.data = << >>]

\* The caller's code that runs when getProducts returns `list`, up to the
\* caller's next await; a direct caller ("list") takes the list.
Resume(s, list) ==
  LET r == [s EXCEPT !.view = list, !.data = << >>]
  IN CASE s.ctx = "validate" -> ValidateResult(r)
       [] s.ctx = "recheck" -> RecheckResult(r)
       [] s.ctx = "prepare" -> Prepared(r)
       [] s.ctx = "list" -> Returned(r, list)

\* ------------------------------------------------- productService.getProducts
\* const isOnline = await productService.checkIsOnline()
GP_CheckIsOnline(p) ==
  /\ st[p].pc = "gp_online"
  /\ st' = [st EXCEPT ![p] =
              Probed([@ EXCEPT !.pc = IF checkIsOnline(net) THEN "gp_select" ELSE "gp_local"],
                     checkIsOnline(net))]
  /\ env' = Env(p, IF checkIsOnline(net) THEN "ok" ELSE "remote")
  /\ UNCHANGED Shared
  /\ UNCHANGED Pure

\* A variant whose catch throws again instead of reading the cache.
GP_SelectRethrows(p, ok) ==
  /\ st[p].pc = "gp_select"
  /\ ok \in RemoteOutcomes
  /\ st' = [st EXCEPT ![p] = IF ok THEN [@ EXCEPT !.pc = "gp_save", !.data = products]
                             ELSE Thrown(@)]
  /\ env' = Env(p, IF ok THEN "ok" ELSE "remote")
  /\ UNCHANGED Shared
  /\ UNCHANGED Pure

\* await supabase.from("products").select("*").order(...); if (error) throw
GP_Select(p, ok) ==
  /\ st[p].pc = "gp_select"
  /\ ok \in RemoteOutcomes
  /\ st' = [st EXCEPT ![p].pc = IF ok THEN "gp_save" ELSE "gp_local",
                      ![p].data = IF ok THEN products ELSE << >>]
  /\ env' = Env(p, IF ok THEN "ok" ELSE "remote")
  /\ UNCHANGED Shared
  /\ UNCHANGED Pure

\* await storageService.saveProducts(data); return data
\* (saveProducts swallows a storage error)
GP_Save(p, ok) ==
  /\ st[p].pc = "gp_save"
  /\ cache' = IF ok THEN st[p].data ELSE cache
  /\ st' = [st EXCEPT ![p] = Resume(@, st[p].data)]
  /\ env' = Env(p, IF ok THEN "ok" ELSE "local")
  /\ UNCHANGED <<net, products, transactions, transaction_items>>
  /\ UNCHANGED Pure

\* return await storageService.getProducts()  (offline, or in the catch);
\* storageService.getProducts gives [] on a storage error
GP_Local(p, ok) ==
  /\ st[p].pc = "gp_local"
  /\ st' = [st EXCEPT ![p] = Resume(@, IF ok THEN cache ELSE << >>)]
  /\ env' = Env(p, IF ok THEN "ok" ELSE "local")
  /\ UNCHANGED Shared
  /\ UNCHANGED Pure

\* The backend has ids left for a further transaction: the user goes on only
\* while it has.
MoreSales == Cardinality(transactions) < Cardinality(TransactionIds)

\* The history of the last attempt is dropped at the next user action.
Forget(s) ==
  [s EXCEPT !.wrote = {}, !.atSubmit = << >>, !.pre = << >>, !.deductOk = << >>,
            !.transaction = << >>]

\* ------------------------------------------------------ OrdersScreen: the cart
\* The product cards on screen: what a getProducts call returned.
Displayed == {products[i] : i \in 1..Len(products)} \cup {cache[i] : i \in 1..Len(cache)}

\* The cart line of a product card ({...product, quantity}); the stock copied
\* into the line is never read again and is left out.
CartLine(product, quantity) ==
  [id |-> product.id, price |-> product.price, quantity |-> quantity]

\* product.quantity || 1
quantityOrOne(product) ==
  IF "quantity" \in DOMAIN product /\ product.quantity # 0 THEN product.quantity ELSE 1

\* A variant that never looks for an existing line.
addToCartAppends(cart, product) == Append(cart, CartLine(product, quantityOrOne(product)))

\* addToCart({...item, quantity: 1}): a tap on a product card, and
\* addToCart({...scannedProduct, quantity}): "Add to Order" of the scanner
addToCart(cart, product) ==
  LET existing == Find(cart, product.id)
      newQuantity == existing[1].quantity + quantityOrOne(product)
  IN IF existing # << >>
     THEN [i \in 1..Len(cart) |->
             IF cart[i].id = product.id
             THEN [cart[i] EXCEPT !.quantity =
                     IF newQuantity > product.stock THEN product.stock ELSE newQuantity]
             ELSE cart[i]]
     ELSE Append(cart, CartLine(product, quantityOrOne(product)))

AddToCart(p, product) ==
  /\ st[p].pc = "orders" /\ ~st[p].scanning
  /\ MoreSales
  /\ ~(product.stock <= 0)
  /\ st' = [st EXCEPT ![p].cart = addToCart(@, product)]
  /\ UNCHANGED <<Shared, env>>
  /\ UNCHANGED Pure

\* updateQuantity(productId, newQuantity), from the - and + buttons of a line
updateQuantity(cart, productId, newQuantity) ==
  IF newQuantity <= 0
  THEN SelectSeq(cart, LAMBDA item : item.id # productId)
  ELSE [i \in 1..Len(cart) |->
          IF cart[i].id = productId THEN [cart[i] EXCEPT !.quantity = newQuantity]
          ELSE cart[i]]

UpdateQuantity(p, i, delta) ==
  /\ st[p].pc = "orders" /\ ~st[p].scanning
  /\ MoreSales
  /\ i \in 1..Len(st[p].cart)
  /\ st[p].cart[i].quantity + delta <= MaxQuantity
  /\ st' = [st EXCEPT ![p].cart =
              updateQuantity(@, st[p].cart[i].id, st[p].cart[i].quantity + delta)]
  /\ UNCHANGED <<Shared, env>>
  /\ UNCHANGED Pure

\* "Proceed to Checkout": setCheckoutVisible(true), disabled on an empty cart
ProceedToCheckout(p) ==
  /\ st[p].pc = "orders" /\ ~st[p].scanning
  /\ MoreSales
  /\ st[p].cart # << >>
  /\ st' = [st EXCEPT ![p].pc = "form"]
  /\ UNCHANGED <<Shared, env>>
  /\ UNCHANGED Pure

\* A dismissal that clears the cart as an acknowledged receipt does.
CancelClearsCart(p) ==
  /\ st[p].pc = "form"
  /\ MoreSales
  /\ st' = [st EXCEPT ![p] = [Forget(@) EXCEPT !.pc = "orders", !.cart = << >>]]
  /\ env' = "clean"
  /\ UNCHANGED Shared
  /\ UNCHANGED Pure

\* Cancel or a tap outside the form: onDismiss(false) -> handleCheckoutComplete
Cancel(p) ==
  /\ st[p].pc = "form"
  /\ MoreSales
  /\ st' = [st EXCEPT ![p] = [Forget(@) EXCEPT !.pc = "orders"]]
  /\ env' = "clean"
  /\ UNCHANGED Shared
  /\ UNCHANGED Pure

\* ------------------------------------------------------------ CheckoutModal
handleCashInputChange(p, text) ==
  /\ st[p].pc = "form"
  /\ MoreSales
  /\ text \in CashTexts \ {st[p].cashGiven}
  /\ st' = [st EXCEPT ![p] = [Forget(@) EXCEPT !.cashGiven = text]]
  /\ env' = "clean"
  /\ UNCHANGED Shared
  /\ UNCHANGED Pure

\* "Complete Sale" (disabled = !isValidPayment): handleSubmitTransaction up to
\* its first await, inside checkStockAvailability -> getProducts.
handleSubmitTransaction(p) ==
  /\ st[p].pc = "form"
  /\ isValidPayment(st[p].cashGiven, total(st[p].cart))
  /\ MoreSales
  /\ st' = [st EXCEPT ![p].pc = "gp_online", ![p].ctx = "validate",
                      ![p].processing = TRUE, ![p].error = << >>,
                      ![p].items = st[p].cart,
                      ![p].wrote = {}, ![p].deductOk = << >>, ![p].pre = << >>,
                      ![p].atSubmit = <<[products |-> products, cache |-> cache,
                                        transactions |-> transactions,
                                        transaction_items |-> transaction_items]>>]
  /\ env' = IF checkIsOnline(net) THEN "clean" ELSE "dirty"
  /\ UNCHANGED Shared
  /\ UNCHANGED Pure

\* The row of Step 1.
TransactionRow(id, tot, cashGiven) ==
  [id |-> id, total |-> tot, cash_given |-> parseFloat(cashGiven),
   change |-> change(cashGiven, tot), status |-> "completed"]

\* A variant that goes on to Step 3 when the insert fails (the sale is kept
\* for later) instead of throwing.
InsertTransactionOrQueue(p, ok) ==
  /\ st[p].pc = "insert_tx"
  /\ ok \in RemoteOutcomes
  /\ LET row == TransactionRow(Cardinality(transactions) + 1,
                               total(st[p].cart), st[p].cashGiven)
     IN /\ transactions' = IF ok THEN transactions \cup {row} ELSE transactions
        /\ st' = [st EXCEPT ![p] =
                    IF ok THEN [@ EXCEPT !.pc = "insert_items", !.transaction = <<row>>,
                                         !.wrote = @ \cup {"tx"}]
                    ELSE [@ EXCEPT !.pc = "gp_online", !.ctx = "recheck",
                                   !.transaction = <<row>>,
                                   !.pre = <<[products |-> products, cache |-> cache]>>]]
  /\ env' = Env(p, IF ok THEN "ok" ELSE "remote")
  /\ UNCHANGED <<net, products, cache, transaction_items>>
  /\ UNCHANGED Pure

\* Step 1: supabase.from("transactions").insert({...}).select().single();
\* if (transactionError) throw transactionError
InsertTransaction(p, ok) ==
  /\ st[p].pc = "insert_tx"
  /\ ok \in RemoteOutcomes
  /\ LET row == TransactionRow(Cardinality(transactions) + 1,
                               total(st[p].cart), st[p].cashGiven)
     IN /\ transactions' = IF ok THEN transactions \cup {row} ELSE transactions
        /\ st' = [st EXCEPT ![p] =
                    IF ok THEN [@ EXCEPT !.pc = "insert_items", !.transaction = <<row>>,
                                         !.wrote = @ \cup {"tx"}]
                    ELSE Failed(@, <<"transaction">>)]
  /\ env' = Env(p, IF ok THEN "ok" ELSE "remote")
  /\ UNCHANGED <<net, products, cache, transaction_items>>
  /\ UNCHANGED Pure

\* A variant that writes a row for the first cart line only.
transactionItemsOfHead(cart, transaction_id, base) ==
  {[id |-> base + i, transaction_id |-> transaction_id, product_id |-> cart[i].id,
    quantity |-> cart[i].quantity, price |-> cart[i].price] : i \in {1}}

\* transactionItems = cart.map(...): one row per cart line
transactionItems(cart, transaction_id, base) ==
  {[id |-> base + i, transaction_id |-> transaction_id, product_id |-> cart[i].id,
    quantity |-> cart[i].quantity, price |-> cart[i].price] : i \in 1..Len(cart)}

\* Step 3 begins: the call of deductStockAfterCheckout(cart), up to its first
\* await; snapshot is the stock in both stores at the call.
DeductCalled(s, snapshot) ==
  [s EXCEPT !.pc = "gp_online", !.ctx = "recheck",
            !.wrote = @ \cup {"items"}, !.pre = <<snapshot>>]

\* A variant that does not throw on itemsError.
ItemsNoThrow(s, ok, snapshot) == DeductCalled(s, snapshot)

\* if (itemsError) throw itemsError -- the catch keeps the modal open with the
\* error; the transaction of Step 1 is not touched.
ItemsResult(s, ok, snapshot) ==
  IF ok THEN DeductCalled(s, snapshot)
  ELSE [Failed(s, <<"items">>) EXCEPT !.transaction = s.transaction]

\* Step 2: supabase.from("transaction_items").insert(transactionItems);
\* if (itemsError) throw itemsError; then Step 3.
InsertItems(p, ok) ==
  /\ st[p].pc = "insert_items"
  /\ ok \in RemoteOutcomes
  /\ transaction_items' =
       IF ok THEN transaction_items \cup
                  transactionItems(st[p].cart, st[p].transaction[1].id,
                                   Cardinality(transaction_items))
       ELSE transaction_items
  /\ st' = [st EXCEPT ![p] =
              ItemsResult(@, ok, [products |-> products, cache |-> cache])]
  /\ env' = Env(p, IF ok THEN "ok" ELSE "remote")
  /\ UNCHANGED <<net, products, cache, transactions>>
  /\ UNCHANGED Pure

\* ------------------------------------------- batchUpdateProductStock
\* const isOnline = await productService.checkIsOnline(); the for loop runs
\* when online and there is an update
BU_CheckIsOnline(p) ==
  /\ st[p].pc = "bu_online"
  /\ LET loop == checkIsOnline(net) /\ st[p].updates # << >>
     IN st' = [st EXCEPT ![p] =
                 Probed([@ EXCEPT !.pc = IF loop THEN "bu_update" ELSE "bu_read",
                                  !.idx = IF loop THEN 1 ELSE 0], checkIsOnline(net))]
  /\ env' = Env(p, IF checkIsOnline(net) THEN "ok" ELSE "remote")
  /\ UNCHANGED Shared
  /\ UNCHANGED Pure

\* for (const update of updates): await supabase...update({stock}).eq("id", ...);
\* an error is logged and the loop goes on
BU_Update(p, ok) ==
  /\ st[p].pc = "bu_update"
  /\ ok \in RemoteOutcomes
  /\ LET update == st[p].updates[st[p].idx]
         last == st[p].idx = Len(st[p].updates)
     IN /\ products' = IF ok THEN remoteSetStock(products, update.productId, update.newStock)
                       ELSE products
        /\ st' = [st EXCEPT ![p] =
                    Logged([@ EXCEPT !.pc = IF last THEN "bu_read" ELSE "bu_update",
                                     !.idx = IF last THEN 0 ELSE @ + 1,
                                     !.wrote = IF ok THEN @ \cup {"stock"} ELSE @], ok)]
  /\ env' = Env(p, IF ok THEN "ok" ELSE "remote")
  /\ UNCHANGED <<net, cache, transactions, transaction_items>>
  /\ UNCHANGED Pure

\* const products = await storageService.getProducts()
BU_Read(p, ok) ==
  /\ st[p].pc = "bu_read"
  /\ st' = [st EXCEPT ![p].pc = "bu_write",
                      ![p].data = IF ok THEN cache ELSE << >>]
  /\ env' = Env(p, IF ok THEN "ok" ELSE "local")
  /\ UNCHANGED Shared
  /\ UNCHANGED Pure

\* await storageService.saveProducts(updatedProducts); return true -- and
\* deductStockAfterCheckout returns that value
BU_Write(p, ok) ==
  /\ st[p].pc = "bu_write"
  /\ cache' = IF ok THEN applyUpdates(st[p].data, st[p].updates) ELSE cache
  /\ st' = [st EXCEPT ![p] = Deducted(@, TRUE)]
  /\ env' = Env(p, IF ok THEN "ok" ELSE "local")
  /\ UNCHANGED <<net, products, transactions, transaction_items>>
  /\ UNCHANGED Pure

\* ------------------------------------------- CheckoutModal, after Step 3
\* Step 4: setReceipt({...transaction, items}); the value that
\* deductStockAfterCheckout returned is not read.
SetReceipt(p) ==
  /\ st[p].pc = "deducted"
  /\ st[p].processing
  /\ st' = [st EXCEPT ![p].pc = "receipt_wait",
                      ![p].receipt = <<[transaction |-> st[p].transaction[1],
                                        items |-> st[p].cart]>>,
                      ![p].items = << >>, ![p].view = << >>, ![p].pre = << >>]
  /\ UNCHANGED <<Shared, env>>
  /\ UNCHANGED Pure

\* A variant whose timer shows the receipt and leaves the processing flag set.
TimerKeepsProcessing(p) ==
  /\ st[p].pc = "receipt_wait"
  /\ st' = [st EXCEPT ![p].pc = "receipt"]
  /\ UNCHANGED <<Shared, env>>
  /\ UNCHANGED Pure

\* setTimeout(() => setProcessing(false), 1000)
ProcessingTimeout(p) ==
  /\ st[p].pc = "receipt_wait"
  /\ st' = [st EXCEPT ![p].pc = "receipt", ![p].processing = FALSE]
  /\ UNCHANGED <<Shared, env>>
  /\ UNCHANGED Pure

\* handleDone: setReceipt(null); setCashGiven(""); onDismiss(true), and
\* handleCheckoutComplete(true): setCart([]); setCheckoutVisible(false)
handleDone(p) ==
  /\ st[p].pc = "receipt"
  /\ st' = [st EXCEPT ![p] = InitSt]
  /\ env' = "clean"
  /\ UNCHANGED Shared
  /\ UNCHANGED Pure

\* ------------------------------------------- a direct caller of the service
\* Request lists of a direct caller: a line of one product, quantity >= 1.
RequestLists ==
  {<<[id |-> i, quantity |-> q]>> : i \in ProductIds, q \in 1..MaxQuantity}

\* productService.deductStockAfterCheckout(items) up to its first await
CallDeduct(p, items) ==
  /\ st[p].pc = "orders"
  /\ st' = [st EXCEPT ![p].pc = "gp_online", ![p].ctx = "recheck",
                      ![p].items = items]
  /\ UNCHANGED <<Shared, env>>
  /\ UNCHANGED Pure

\* the caller takes the returned value
DeductReturn(p) ==
  /\ st[p].pc = "deducted"
  /\ ~st[p].processing
  /\ st' = [st EXCEPT ![p].pc = "returned", ![p].view = << >>]
  /\ UNCHANGED <<Shared, env>>
  /\ UNCHANGED Pure

\* ------------------------------------------------------- specifications
\* One client: the orders screen with its checkout modal, and the network.
Next ==
  \/ NetChange
  \/ \E product \in Displayed : AddToCart(UI, product)
  \/ \E i \in 1..Cardinality(ProductIds), delta \in {-1, 1} : UpdateQuantity(UI, i, delta)
  \/ ProceedToCheckout(UI)
  \/ Cancel(UI)
  \/ \E text \in CashTexts : handleCashInputChange(UI, text)
  \/ handleSubmitTransaction(UI)
  \/ \E ok \in BOOLEAN : InsertTransaction(UI, ok)
  \/ \E ok \in BOOLEAN : InsertItems(UI, ok)
  \/ GP_CheckIsOnline(UI)
  \/ \E ok \in BOOLEAN : GP_Select(UI, ok)
  \/ \E ok \in BOOLEAN : GP_Save(UI, ok)
  \/ \E ok \in BOOLEAN : GP_Local(UI, ok)
  \/ BU_CheckIsOnline(UI)
  \/ \E ok \in BOOLEAN : BU_Update(UI, ok)
  \/ \E ok \in BOOLEAN : BU_Read(UI, ok)
  \/ \E ok \in BOOLEAN : BU_Write(UI, ok)
  \/ SetReceipt(UI)
  \/ ProcessingTimeout(UI)
  \/ handleDone(UI)

Spec == Init /\ [][Next]_vars

\* Several callers of deductStockAfterCheckout at once, and the network.
NextRace ==
  \/ NetChange
  \/ \E p \in Callers, items \in RequestLists : CallDeduct(p, items)
  \/ \E p \in Callers : GP_CheckIsOnline(p)
  \/ \E p \in Callers, ok \in BOOLEAN : GP_Select(p, ok)
  \/ \E p \in Callers, ok \in BOOLEAN : GP_Save(p, ok)
  \/ \E p \in Callers, ok \in BOOLEAN : GP_Local(p, ok)
  \/ \E p \in Callers : BU_CheckIsOnline(p)
  \/ \E p \in Callers, ok \in BOOLEAN : BU_Update(p, ok)
  \/ \E p \in Callers, ok \in BOOLEAN : BU_Read(p, ok)
  \/ \E p \in Callers, ok \in BOOLEAN : BU_Write(p, ok)
  \/ \E p \in Callers : DeductReturn(p)

SpecRace == Init /\ [][NextRace]_vars

\* A stand-alone checkStockAvailability(req) whose getProducts returned avail.
RequestLines == [id : ProductIds, quantity : 1..(MaxQuantity + 1)]
Requests == UNION {[1..n -> RequestLines] : n \in 0..MaxLines}
Views == {TableOf(stock, ids) : stock \in [ProductIds -> 0..MaxStock],
                                ids \in SUBSET ProductIds}

InitAvail ==
  /\ InitShared
  /\ cache = << >>
  /\ req \in Requests
  /\ avail \in Views
  /\ result = << >>

ApplyCheck ==
  /\ result = << >>
  /\ result' = <<checkStockAvailability(req, avail)>>
  /\ UNCHANGED <<Shared, st, env, req, avail, initStock, clock, storage, live>>

NextAvail == ApplyCheck

SpecAvail == InitAvail /\ [][NextAvail]_vars

\* ------------------------------------------- OrdersScreen: the scanner
\* startScanning, with the camera permission granted: setScanning(true); the
\* scanner then replaces the product cards and the cart on screen
startScanning(p) ==
  /\ st[p].pc = "orders" /\ ~st[p].scanning
  /\ st' = [st EXCEPT ![p].scanning = TRUE]
  /\ UNCHANGED <<Shared, env>>
  /\ UNCHANGED Pure

\* handleBarCodeScanned: setScannedProduct({...product, quantity: 1})
handleBarCodeScanned(p, product) ==
  /\ st[p].scanning
  /\ st[p].scannedProduct = << >>
  /\ st' = [st EXCEPT ![p].scannedProduct = <<product @@ [quantity |-> 1]>>]
  /\ UNCHANGED <<Shared, env>>
  /\ UNCHANGED Pure

\* The - and + buttons of the scanned product:
\* quantity: Math.max(1, prev.quantity - 1) and quantity: prev.quantity + 1
setScannedQuantity(p, delta) ==
  /\ st[p].scannedProduct # << >>
  /\ st[p].scannedProduct[1].quantity + delta <= MaxQuantity
  /\ st' = [st EXCEPT ![p].scannedProduct[1].quantity = Max(1, @ + delta)]
  /\ UNCHANGED <<Shared, env>>
  /\ UNCHANGED Pure

\* handleAddScannedProduct: addToCart({...scannedProduct, quantity});
\* setScannedProduct(null); setScanning(true)
handleAddScannedProduct(p) ==
  /\ st[p].scannedProduct # << >>
  /\ st' = [st EXCEPT ![p].cart = IF st[p].scannedProduct[1].stock <= 0 THEN @
                                  ELSE addToCart(@, st[p].scannedProduct[1]),
                      ![p].scannedProduct = << >>,
                      ![p].scanning = TRUE]
  /\ UNCHANGED <<Shared, env>>
  /\ UNCHANGED Pure

\* Cancel of the scanned product, or a tap outside the scanner:
\* setScannedProduct(null); setScanning(false)
CancelScan(p) ==
  /\ st[p].scanning
  /\ st' = [st EXCEPT ![p].scannedProduct = << >>, ![p].scanning = FALSE]
  /\ UNCHANGED <<Shared, env>>
  /\ UNCHANGED Pure

\* A catalogue in which product 1 is nearly sold out.
LowStock == [id \in ProductIds |-> IF id = 1 THEN 1 ELSE MaxStock]

InitCart ==
  /\ net = online
  /\ initStock = LowStock
  /\ products = TableOf(initStock, ProductIds)
  /\ cache = products
  /\ transactions = {} /\ transaction_items = {}
  /\ st = [p \in Callers |-> InitSt]
  /\ env = "clean"
  /\ clock = 0
  /\ storage = NoSession
  /\ live = << >>
  /\ req = << >> /\ avail = << >> /\ result = << >>

\* The orders screen before a sale is submitted: product cards, the scanner,
\* the cart lines and the checkout form.
NextCart ==
  \/ startScanning(UI)
  \/ \E product \in Displayed : AddToCart(UI, product)
  \/ \E i \in 1..Cardinality(ProductIds), delta \in {-1, 1} : UpdateQuantity(UI, i, delta)
  \/ \E product \in Displayed : handleBarCodeScanned(UI, product)
  \/ \E delta \in {-1, 1} : setScannedQuantity(UI, delta)
  \/ handleAddScannedProduct(UI)
  \/ CancelScan(UI)
  \/ ProceedToCheckout(UI)
  \/ Cancel(UI)
  \/ \E text \in CashTexts : handleCashInputChange(UI, text)

SpecCart == InitCart /\ [][NextCart]_vars

\* ------------------------------------------- catalogue session: direct calls
\* Ids: a server id has no prefix, `temp_${Date.now()}` has the prefix temp_.
ServerId(n) == <<"", n>>
\* An id without the temp_ prefix.
TempIdBare(t) == <<"", t>>

TempId(t) == <<"temp_", t>>

\* A row of products as the catalogue screens read it.
Item(id, name, price, barcode, stock, created_at) ==
  [id |-> id, name |-> name, price |-> price, barcode |-> barcode,
   stock |-> stock, created_at |-> created_at]

\* The catalogue at the start of a session, newest first.
Catalogue ==
  <<Item(ServerId(2), "Rice", 10, "b2", MaxStock, 0),
    Item(ServerId(1), "Salt", 5, "b1", MaxStock, 0)>>

\* Ids a caller can name: those on screen, and one that no store has.
KnownIds ==
  {products[i].id : i \in 1..Len(products)} \cup {cache[i].id : i \in 1..Len(cache)}
    \cup {ServerId(0)}

InitSvc ==
  /\ net = online
  /\ initStock = [id \in ProductIds |-> MaxStock]
  /\ products = Catalogue
  /\ cache \in {<< >>, products}
  /\ transactions = {} /\ transaction_items = {}
  /\ st = [p \in Callers |-> InitSt]
  /\ env = "clean"
  /\ clock = 0
  /\ storage = NoSession
  /\ live = << >>
  /\ req = << >> /\ avail = << >> /\ result = << >>

\* The caller is between two calls and may start another.
Idle(p) == st[p].pc \in {"orders", "returned"} /\ st[p].calls < Cardinality(CallSlots)

\* The locals of a call of operation `name` up to its first await.
Called(s, name, args, pc, snapshot) ==
  [s EXCEPT !.pc = pc, !.op = <<name>>, !.args = args, !.ret = << >>, !.value = << >>,
            !.prev = IF s.op \notin {<<"create">>, <<"delete">>} THEN << >>
                     ELSE <<[op |-> s.op[1], args |-> s.args, wasOnline |-> s.wasOnline,
                             env |-> env, ret |-> s.ret[1]]>>,
            !.wasOnline = << >>, !.log = << >>, !.calls = @ + 1, !.pre = <<snapshot>>,
            !.networkState = << >>,
            !.data = << >>, !.view = << >>, !.deductOk = << >>]

\* The clock advances.
Tick ==
  /\ clock + 1 \in Instants
  /\ clock' = clock + 1
  /\ UNCHANGED <<Shared, st, env, req, avail, result, initStock, storage, live>>

\* ------------------------------------------- productService.updateProductStock
\* products.map((p) => p.id === productId ? {...p, stock: newStockQuantity} : p)
withStock(list, productId, newStockQuantity) ==
  [i \in 1..Len(list) |->
     IF list[i].id = productId THEN [list[i] EXCEPT !.stock = newStockQuantity]
     ELSE list[i]]

CallSetStock(p, productId, newStockQuantity) ==
  /\ Idle(p)
  /\ st' = [st EXCEPT ![p] =
              Called(@, "setStock", [productId |-> productId, newStock |-> newStockQuantity],
                     "us_online", [products |-> products, cache |-> cache])]
  /\ env' = "clean"
  /\ UNCHANGED Shared
  /\ UNCHANGED Pure

\* const isOnline = await productService.checkIsOnline()
US_CheckIsOnline(p) ==
  /\ st[p].pc = "us_online"
  /\ st' = [st EXCEPT ![p].pc = IF checkIsOnline(net) THEN "us_update" ELSE "us_read",
                      ![p].wasOnline = <<checkIsOnline(net)>>]
  /\ env' = Env(p, IF checkIsOnline(net) THEN "ok" ELSE "remote")
  /\ UNCHANGED Shared
  /\ UNCHANGED Pure

\* supabase...update({stock}).eq("id", productId).select().single();
\* if (error) throw error -> catch: return false.  single() reports an error
\* when no row matches.
US_Update(p, ok) ==
  /\ st[p].pc = "us_update"
  /\ ok \in RemoteOutcomes
  /\ ok => Find(products, st[p].args.productId) # << >>
  /\ products' = IF ok THEN remoteSetStock(products, st[p].args.productId, st[p].args.newStock)
                 ELSE products
  /\ st' = [st EXCEPT ![p] = IF ok THEN [@ EXCEPT !.pc = "us_read"] ELSE Returned(@, FALSE)]
  /\ env' = Env(p, IF ok THEN "ok" ELSE "remote")
  /\ UNCHANGED <<net, cache, transactions, transaction_items>>
  /\ UNCHANGED Pure

\* const products = await storageService.getProducts()
US_Read(p, ok) ==
  /\ st[p].pc = "us_read"
  /\ st' = [st EXCEPT ![p].pc = "us_write", ![p].data = IF ok THEN cache ELSE << >>]
  /\ env' = Env(p, IF ok THEN "ok" ELSE "local")
  /\ UNCHANGED Shared
  /\ UNCHANGED Pure

\* await storageService.saveProducts(updated); return true
US_Write(p, ok) ==
  /\ st[p].pc = "us_write"
  /\ cache' = IF ok THEN withStock(st[p].data, st[p].args.productId, st[p].args.newStock)
              ELSE cache
  /\ st' = [st EXCEPT ![p] = Returned(@, TRUE)]
  /\ env' = Env(p, IF ok THEN "ok" ELSE "local")
  /\ UNCHANGED <<net, products, transactions, transaction_items>>
  /\ UNCHANGED Pure

\* ------------------------------- productService.batchUpdateProductStock, direct
\* Update sets a caller passes: up to two rows, a product possibly twice.
UpdateSizes == {0, 1, 2}
UpdateSets ==
  UNION {[1..n -> [productId : KnownIds, newStock : StockValues]] : n \in UpdateSizes}

\* batchUpdateProductStock(updates) up to its first await
CallBatch(p, updates) ==
  /\ Idle(p)
  /\ st' = [st EXCEPT ![p] =
              [Called(@, "batch", updates, "bu_online",
                      [products |-> products, cache |-> cache])
               EXCEPT !.updates = updates]]
  /\ env' = "clean"
  /\ UNCHANGED Shared
  /\ UNCHANGED Pure

\* the caller takes the value that batchUpdateProductStock returned
BatchReturn(p) ==
  /\ st[p].pc = "deducted" /\ st[p].op = <<"batch">>
  /\ st' = [st EXCEPT ![p] = Returned(@, st[p].deductOk[1])]
  /\ UNCHANGED <<Shared, env>>
  /\ UNCHANGED Pure

\* One caller of the catalogue operations, the network and the clock.
NextSvc ==
  \/ NetChange
  \/ Tick
  \/ \E id \in KnownIds, n \in StockValues : CallSetStock(UI, id, n)
  \/ US_CheckIsOnline(UI)
  \/ \E ok \in BOOLEAN : US_Update(UI, ok)
  \/ \E ok \in BOOLEAN : US_Read(UI, ok)
  \/ \E ok \in BOOLEAN : US_Write(UI, ok)
  \/ \E updates \in UpdateSets : CallBatch(UI, updates)
  \/ BU_CheckIsOnline(UI)
  \/ \E ok \in BOOLEAN : BU_Update(UI, ok)
  \/ \E ok \in BOOLEAN : BU_Read(UI, ok)
  \/ \E ok \in BOOLEAN : BU_Write(UI, ok)
  \/ BatchReturn(UI)

SpecSvc == InitSvc /\ [][NextSvc]_vars

\* ------------------------------------------- productService.getProducts, direct
CallList(p) ==
  /\ Idle(p)
  /\ st' = [st EXCEPT ![p] =
              [Called(@, "list", << >>, "gp_online", [products |-> products, cache |-> cache])
               EXCEPT !.ctx = "list"]]
  /\ env' = "clean"
  /\ UNCHANGED Shared
  /\ UNCHANGED Pure

\* ------------------------------------------- productService.createProduct
\* Drafts of the add-product form (Scenario C).
Drafts == {[name |-> "Soap", price |-> 25, barcode |-> "b3", stock |-> 10]}

\* {...product, id, created_at}
Stamped(product, id, created_at) ==
  Item(id, product.name, product.price, product.barcode, product.stock, created_at)

CallCreate(p, product) ==
  /\ Idle(p)
  /\ st' = [st EXCEPT ![p] =
              Called(@, "create", product, "cp_online", [products |-> products, cache |-> cache])]
  /\ env' = "clean"
  /\ UNCHANGED Shared
  /\ UNCHANGED Pure

\* const isOnline = await productService.checkIsOnline()
CP_CheckIsOnline(p) ==
  /\ st[p].pc = "cp_online"
  /\ st' = [st EXCEPT ![p].pc = IF checkIsOnline(net) THEN "cp_insert" ELSE "cp_read",
                      ![p].wasOnline = <<checkIsOnline(net)>>]
  /\ env' = Env(p, IF checkIsOnline(net) THEN "ok" ELSE "remote")
  /\ UNCHANGED Shared
  /\ UNCHANGED Pure

\* supabase.from("products").insert(product).select().single(); if (error)
\* throw error.  The remote store assigns the id and the creation time.
CP_Insert(p, ok) ==
  /\ st[p].pc = "cp_insert"
  /\ ok \in RemoteOutcomes
  /\ LET data == Stamped(st[p].args, ServerId(Len(Catalogue) + st[p].calls), clock)
     IN /\ products' = IF ok THEN <<data>> \o products ELSE products
        /\ st' = [st EXCEPT ![p] = IF ok THEN [@ EXCEPT !.pc = "cp_read", !.value = <<data>>]
                                   ELSE Thrown(@)]
  /\ env' = Env(p, IF ok THEN "ok" ELSE "remote")
  /\ UNCHANGED <<net, cache, transactions, transaction_items>>
  /\ UNCHANGED Pure

\* const products = await storageService.getProducts(); offline the new
\* product is made here: id `temp_${Date.now()}`, created_at of the same instant
CP_Read(p, ok) ==
  /\ st[p].pc = "cp_read"
  /\ LET list == IF ok THEN cache ELSE << >>
         made == IF st[p].wasOnline = <<TRUE>> THEN st[p].value[1]
                 ELSE Stamped(st[p].args, TempId(clock), clock)
     IN st' = [st EXCEPT ![p].pc = "cp_write", ![p].value = <<made>>,
                         ![p].data = <<made>> \o list]
  /\ env' = Env(p, IF ok THEN "ok" ELSE "local")
  /\ UNCHANGED Shared
  /\ UNCHANGED Pure

\* await storageService.saveProducts([newProduct, ...products]); return it
CP_Write(p, ok) ==
  /\ st[p].pc = "cp_write"
  /\ cache' = IF ok THEN st[p].data ELSE cache
  /\ st' = [st EXCEPT ![p] = Returned(@, st[p].value[1])]
  /\ env' = Env(p, IF ok THEN "ok" ELSE "local")
  /\ UNCHANGED <<net, products, transactions, transaction_items>>
  /\ UNCHANGED Pure

\* ------------------------------------------- productService.deleteProduct
\* products.filter((p) => p.id !== id), and a filter that removes nothing
filteredNothing(list, id) == list

filtered(list, id) == SelectSeq(list, LAMBDA product : product.id # id)

CallDelete(p, id) ==
  /\ Idle(p)
  /\ st' = [st EXCEPT ![p] =
              Called(@, "delete", id, "dp_online", [products |-> products, cache |-> cache])]
  /\ env' = "clean"
  /\ UNCHANGED Shared
  /\ UNCHANGED Pure

\* const isOnline = await productService.checkIsOnline()
DP_CheckIsOnline(p) ==
  /\ st[p].pc = "dp_online"
  /\ st' = [st EXCEPT ![p].pc = IF checkIsOnline(net) THEN "dp_delete" ELSE "dp_read",
                      ![p].wasOnline = <<checkIsOnline(net)>>]
  /\ env' = Env(p, IF checkIsOnline(net) THEN "ok" ELSE "remote")
  /\ UNCHANGED Shared
  /\ UNCHANGED Pure

\* supabase.from("products").delete().eq("id", id); if (error) throw error
DP_Delete(p, ok) ==
  /\ st[p].pc = "dp_delete"
  /\ ok \in RemoteOutcomes
  /\ products' = IF ok THEN filtered(products, st[p].args) ELSE products
  /\ st' = [st EXCEPT ![p] = IF ok THEN [@ EXCEPT !.pc = "dp_read"] ELSE Thrown(@)]
  /\ env' = Env(p, IF ok THEN "ok" ELSE "remote")
  /\ UNCHANGED <<net, cache, transactions, transaction_items>>
  /\ UNCHANGED Pure

\* const products = await storageService.getProducts(); filtered = ...
DP_Read(p, ok) ==
  /\ st[p].pc = "dp_read"
  /\ st' = [st EXCEPT ![p].pc = "dp_write",
                      ![p].data = filtered(IF ok THEN cache ELSE << >>, st[p].args)]
  /\ env' = Env(p, IF ok THEN "ok" ELSE "local")
  /\ UNCHANGED Shared
  /\ UNCHANGED Pure

\* await storageService.saveProducts(filtered); return true
DP_Write(p, ok) ==
  /\ st[p].pc = "dp_write"
  /\ cache' = IF ok THEN st[p].data ELSE cache
  /\ st' = [st EXCEPT ![p] = Returned(@, TRUE)]
  /\ env' = Env(p, IF ok THEN "ok" ELSE "local")
  /\ UNCHANGED <<net, products, transactions, transaction_items>>
  /\ UNCHANGED Pure

\* ------------------------------------------- productService.updateProduct
\* Patches of the edit-product form.
Patches == {[price |-> 7], [name |-> "Sea salt", stock |-> 1]}

\* A merge in which the old entry wins.
mergedOldWins(old, product) == old @@ product

\* { ...p, ...product }: the patch wins
merged(old, product) == product @@ old

\* products.map((p) => (p.id === id ? data : p))
replaced(list, id, data) ==
  [i \in 1..Len(list) |-> IF list[i].id = id THEN data ELSE list[i]]

\* products.map((p) => p.id === id ? { ...p, ...product } : p)
patched(list, id, product) ==
  [i \in 1..Len(list) |-> IF list[i].id = id THEN merged(list[i], product) ELSE list[i]]

CallUpdate(p, id, product) ==
  /\ Idle(p)
  /\ st' = [st EXCEPT ![p] =
              Called(@, "update", [id |-> id, product |-> product], "up_online",
                     [products |-> products, cache |-> cache])]
  /\ env' = "clean"
  /\ UNCHANGED Shared
  /\ UNCHANGED Pure

\* const isOnline = await productService.checkIsOnline()
UP_CheckIsOnline(p) ==
  /\ st[p].pc = "up_online"
  /\ st' = [st EXCEPT ![p].pc = IF checkIsOnline(net) THEN "up_update" ELSE "up_read",
                      ![p].wasOnline = <<checkIsOnline(net)>>]
  /\ env' = Env(p, IF checkIsOnline(net) THEN "ok" ELSE "remote")
  /\ UNCHANGED Shared
  /\ UNCHANGED Pure

\* supabase.from("products").update(product).eq("id", id).select().single();
\* if (error) throw error.  single() is an error when no row matches.
UP_Update(p, ok) ==
  /\ st[p].pc = "up_update"
  /\ ok \in RemoteOutcomes
  /\ ok => Find(products, st[p].args.id) # << >>
  /\ products' = IF ok THEN patched(products, st[p].args.id, st[p].args.product)
                 ELSE products
  /\ st' = [st EXCEPT ![p] =
              IF ok THEN [@ EXCEPT !.pc = "up_read",
                                   !.value = Find(products', st[p].args.id)]
              ELSE Thrown(@)]
  /\ env' = Env(p, IF ok THEN "ok" ELSE "remote")
  /\ UNCHANGED <<net, cache, transactions, transaction_items>>
  /\ UNCHANGED Pure

\* const products = await storageService.getProducts(); updated = ...
UP_Read(p, ok) ==
  /\ st[p].pc = "up_read"
  /\ LET list == IF ok THEN cache ELSE << >>
     IN st' = [st EXCEPT ![p].pc = "up_write",
                         ![p].data = IF st[p].wasOnline = <<TRUE>>
                                     THEN replaced(list, st[p].args.id, st[p].value[1])
                                     ELSE patched(list, st[p].args.id, st[p].args.product)]
  /\ env' = Env(p, IF ok THEN "ok" ELSE "local")
  /\ UNCHANGED Shared
  /\ UNCHANGED Pure

\* await storageService.saveProducts(updated); return data, or offline
\* return { id, ...product }
UP_Write(p, ok) ==
  /\ st[p].pc = "up_write"
  /\ cache' = IF ok THEN st[p].data ELSE cache
  /\ st' = [st EXCEPT ![p] =
              Returned(@, IF st[p].wasOnline = <<TRUE>> THEN st[p].value[1]
                          ELSE st[p].args.product @@ [id |-> st[p].args.id])]
  /\ env' = Env(p, IF ok THEN "ok" ELSE "local")
  /\ UNCHANGED <<net, products, transactions, transaction_items>>
  /\ UNCHANGED Pure

\* One caller of list/create/update/delete, the network and the clock.
NextCat ==
  \/ NetChange
  \/ Tick
  \/ CallList(UI)
  \/ GP_CheckIsOnline(UI)
  \/ \E ok \in BOOLEAN : GP_Select(UI, ok)
  \/ \E ok \in BOOLEAN : GP_Save(UI, ok)
  \/ \E ok \in BOOLEAN : GP_Local(UI, ok)
  \/ \E product \in Drafts : CallCreate(UI, product)
  \/ CP_CheckIsOnline(UI)
  \/ \E ok \in BOOLEAN : CP_Insert(UI, ok)
  \/ \E ok \in BOOLEAN : CP_Read(UI, ok)
  \/ \E ok \in BOOLEAN : CP_Write(UI, ok)
  \/ \E id \in KnownIds : CallDelete(UI, id)
  \/ DP_CheckIsOnline(UI)
  \/ \E ok \in BOOLEAN : DP_Delete(UI, ok)
  \/ \E ok \in BOOLEAN : DP_Read(UI, ok)
  \/ \E ok \in BOOLEAN : DP_Write(UI, ok)
  \/ \E id \in KnownIds, product \in Patches : CallUpdate(UI, id, product)
  \/ UP_CheckIsOnline(UI)
  \/ \E ok \in BOOLEAN : UP_Update(UI, ok)
  \/ \E ok \in BOOLEAN : UP_Read(UI, ok)
  \/ \E ok \in BOOLEAN : UP_Write(UI, ok)

SpecCat == InitSvc /\ [][NextCat]_vars

\* ------------------------------------------- one client, every product operation
\* The cache starts as the mirror a successful list() left.
InitMirror ==
  /\ InitSvc
  /\ cache = products

NextMirror ==
  \/ NetChange
  \/ CallList(UI)
  \/ GP_CheckIsOnline(UI)
  \/ \E ok \in BOOLEAN : GP_Select(UI, ok)
  \/ \E ok \in BOOLEAN : GP_Save(UI, ok)
  \/ \E ok \in BOOLEAN : GP_Local(UI, ok)
  \/ \E product \in Drafts : CallCreate(UI, product)
  \/ CP_CheckIsOnline(UI)
  \/ \E ok \in BOOLEAN : CP_Insert(UI, ok)
  \/ \E ok \in BOOLEAN : CP_Read(UI, ok)
  \/ \E ok \in BOOLEAN : CP_Write(UI, ok)
  \/ \E id \in KnownIds : CallDelete(UI, id)
  \/ DP_CheckIsOnline(UI)
  \/ \E ok \in BOOLEAN : DP_Delete(UI, ok)
  \/ \E ok \in BOOLEAN : DP_Read(UI, ok)
  \/ \E ok \in BOOLEAN : DP_Write(UI, ok)
  \/ \E id \in KnownIds, product \in Patches : CallUpdate(UI, id, product)
  \/ UP_CheckIsOnline(UI)
  \/ \E ok \in BOOLEAN : UP_Update(UI, ok)
  \/ \E ok \in BOOLEAN : UP_Read(UI, ok)
  \/ \E ok \in BOOLEAN : UP_Write(UI, ok)
  \/ \E id \in KnownIds, n \in StockValues : CallSetStock(UI, id, n)
  \/ US_CheckIsOnline(UI)
  \/ \E ok \in BOOLEAN : US_Update(UI, ok)
  \/ \E ok \in BOOLEAN : US_Read(UI, ok)
  \/ \E ok \in BOOLEAN : US_Write(UI, ok)
  \/ \E updates \in UpdateSets : CallBatch(UI, updates)
  \/ BU_CheckIsOnline(UI)
  \/ \E ok \in BOOLEAN : BU_Update(UI, ok)
  \/ \E ok \in BOOLEAN : BU_Read(UI, ok)
  \/ \E ok \in BOOLEAN : BU_Write(UI, ok)
  \/ BatchReturn(UI)

SpecMirror == InitMirror /\ [][NextMirror]_vars

\* ------------------- batchUpdateProductStock as one uninterrupted call
\* The remote table after the for loop over `updates`, row i accepted iff rows[i].
RECURSIVE remoteAfterBatch(_, _, _)
remoteAfterBatch(table, updates, rows) ==
  IF updates = << >> THEN table
  ELSE remoteAfterBatch(
         IF Head(rows) THEN remoteSetStock(table, Head(updates).productId, Head(updates).newStock)
         ELSE table,
         Tail(updates), Tail(rows))

\* A variant that takes newStock off the cached stock.
cacheAfterBatchRelative(list, updates, read, write) ==
  IF write
  THEN [i \in 1..Len(list) |->
          LET u == FindUpdate(updates, list[i].id)
          IN IF u # << >> THEN [list[i] EXCEPT !.stock = Max(0, @ - u[1].newStock)]
             ELSE list[i]]
  ELSE list

\* The cached list after "Always update local storage": the read gives [] on a
\* storage error, the write is dropped on one.
cacheAfterBatch(list, updates, read, write) ==
  IF write THEN applyUpdates(IF read THEN list ELSE << >>, updates) ELSE list

\* Both stores after batchUpdateProductStock(updates) met `outcome`.
batchUpdateProductStock(stores, updates, outcome) ==
  [products |-> IF outcome.online
                THEN remoteAfterBatch(stores.products, updates, outcome.rows)
                ELSE stores.products,
   cache |-> cacheAfterBatch(stores.cache, updates, outcome.read, outcome.write)]

\* What a call can meet: the probe's answer, the outcome of each row's remote
\* update, of the local read and of the local write.
OutcomesOf(updates) ==
  [online : BOOLEAN, rows : [1..Len(updates) -> BOOLEAN], read : BOOLEAN, write : BOOLEAN]

CatalogueIds == {Catalogue[i].id : i \in 1..Len(Catalogue)}

\* Cached lists: any part of the catalogue, in its order, with any stock.
CachedLists ==
  {SelectSeq([i \in 1..Len(Catalogue) |-> [Catalogue[i] EXCEPT !.stock = stock[Catalogue[i].id]]],
             LAMBDA row : row.id \in ids) :
     stock \in [CatalogueIds -> 0..MaxStock], ids \in SUBSET CatalogueIds}

BatchInputs ==
  UNION {{[updates |-> u, outcome |-> o] : o \in OutcomesOf(u)} :
           u \in UNION {[1..n -> [productId : CatalogueIds \cup {ServerId(0)},
                                  newStock : StockValues]] : n \in UpdateSizes}}

InitIdem ==
  /\ net = online
  /\ initStock = [id \in ProductIds |-> MaxStock]
  /\ products = Catalogue
  /\ cache \in CachedLists
  /\ transactions = {} /\ transaction_items = {}
  /\ st = [p \in Callers |-> InitSt]
  /\ env = "clean"
  /\ clock = 0
  /\ storage = NoSession
  /\ live = << >>
  /\ req \in BatchInputs
  /\ avail = <<[products |-> products, cache |-> cache]>>
  /\ result = << >>

\* One more call with the same update set, meeting the same outcomes.
BatchAgain ==
  /\ Len(result) < 2
  /\ LET after == batchUpdateProductStock([products |-> products, cache |-> cache],
                                          req.updates, req.outcome)
     IN /\ products' = after.products
        /\ cache' = after.cache
        /\ result' = Append(result, after)
  /\ UNCHANGED <<net, transactions, transaction_items, st, env, req, avail, initStock, clock,
               storage, live>>

NextIdem == BatchAgain

SpecIdem == InitIdem /\ [][NextIdem]_vars

\* ================================================================ authService
\* NetInfo can also report a connection without a reachable internet.
captive == [isConnected |-> TRUE, isInternetReachable |-> FALSE]
ProbeStates == NetStates \cup {captive}

\* The offline test of authService: !networkState.isConnected.  An unknown
\* (null) flag is falsy in both tests and is read as FALSE.
isOffline(networkState) == ~networkState.isConnected

\* NetInfo reports a connectivity change to one of its three states.
ReachabilityChange ==
  /\ net' \in ProbeStates \ {net}
  /\ UNCHANGED <<products, cache, transactions, transaction_items, st, env>>
  /\ UNCHANGED Pure

\* Everything but the session keys, the callers and the network.
Tables == <<products, cache, transactions, transaction_items,
            req, avail, result, initStock, clock>>

\* The sessions the credential backend hands out, and the one it handed out
\* on an earlier run of the app.
Sessions == {[access_token |-> "t1", user |-> "ann"], [access_token |-> "t2", user |-> "ann"]}
EarlierSession == [access_token |-> "t0", user |-> "ann"]
Credentials == {[email |-> "ann", password |-> "pw"]}

\* JSON.stringify(session) and JSON.parse(sessionStr)
stringify(session) == <<"json", session>>
parse(sessionStr) == sessionStr[2]

\* The local store as saveSession leaves it when both writes succeed.
Saved(session) ==
  [key \in DOMAIN NoSession |->
     IF key = KEYS.SESSION THEN <<stringify(session)>> ELSE <<session.access_token>>]

InitAuth ==
  /\ net \in ProbeStates
  /\ initStock = [id \in ProductIds |-> MaxStock]
  /\ products = Catalogue
  /\ cache = << >>
  /\ transactions = {} /\ transaction_items = {}
  /\ st = [p \in Callers |-> InitSt]
  /\ env = "clean"
  /\ clock = 0
  /\ storage \in {NoSession, Saved(EarlierSession)}
  /\ live \in {<< >>, <<EarlierSession>>}
  /\ req = << >> /\ avail = << >> /\ result = << >>

\* ---------------------------------------------------------- authService.signIn
CallSignIn(p, credentials) ==
  /\ Idle(p)
  /\ st' = [st EXCEPT ![p] = Called(@, "signIn", credentials, "si_auth", [storage |-> storage])]
  /\ env' = "clean"
  /\ UNCHANGED <<net, storage, live>>
  /\ UNCHANGED Tables

\* const { data, error } = await supabase.auth.signInWithPassword(...);
\* if (error) throw error
SI_Auth(p, ok) ==
  /\ st[p].pc = "si_auth"
  /\ ok \in RemoteOutcomes
  /\ \E session \in Sessions :
       /\ st' = [st EXCEPT ![p].pc = IF ok THEN "si_save" ELSE "si_fetch",
                           ![p].value = IF ok THEN <<[session |-> session, user |-> session.user]>>
                                        ELSE << >>]
       /\ live' = IF ok THEN <<session>> ELSE live
  /\ env' = Env(p, IF ok THEN "ok" ELSE "remote")
  /\ UNCHANGED <<net, storage>>
  /\ UNCHANGED Tables

\* storageService.saveSession: AsyncStorage.setItem(KEYS.SESSION, ...); an
\* error is logged and saveSession returns
SI_SaveSession(p, ok) ==
  /\ st[p].pc = "si_save"
  /\ storage' = IF ok THEN [storage EXCEPT ![KEYS.SESSION] = <<stringify(st[p].value[1].session)>>]
                ELSE storage
  /\ st' = [st EXCEPT ![p] = IF ok THEN [@ EXCEPT !.pc = "si_token"]
                             ELSE Returned(@, st[p].value[1])]
  /\ env' = Env(p, IF ok THEN "ok" ELSE "local")
  /\ UNCHANGED <<net, live>>
  /\ UNCHANGED Tables

\* if (session?.access_token) AsyncStorage.setItem(KEYS.AUTH_TOKEN, ...);
\* return data
SI_SaveToken(p, ok) ==
  /\ st[p].pc = "si_token"
  /\ storage' = IF ok THEN [storage EXCEPT ![KEYS.AUTH_TOKEN] =
                                             <<st[p].value[1].session.access_token>>]
                ELSE storage
  /\ st' = [st EXCEPT ![p] = Returned(@, st[p].value[1])]
  /\ env' = Env(p, IF ok THEN "ok" ELSE "local")
  /\ UNCHANGED <<net, live>>
  /\ UNCHANGED Tables

\* catch: const networkState = await NetInfo.fetch();
\* if (!networkState.isConnected) ... else throw error
SI_Fetch(p) ==
  /\ st[p].pc = "si_fetch"
  /\ st' = [st EXCEPT ![p] = IF isOffline(net)
                             THEN [@ EXCEPT !.pc = "si_stored", !.networkState = <<net>>]
                             ELSE [Thrown(@) EXCEPT !.networkState = <<net>>]]
  /\ UNCHANGED <<net, storage, live, env>>
  /\ UNCHANGED Tables

\* storageService.getSession() (null on a read error);
\* if (storedSession) return { session: storedSession }; throw error
SI_Stored(p, ok) ==
  /\ st[p].pc = "si_stored"
  /\ LET storedSession == IF ok /\ storage[KEYS.SESSION] # << >>
                          THEN <<parse(storage[KEYS.SESSION][1])>> ELSE << >>
     IN st' = [st EXCEPT ![p] = IF storedSession # << >>
                                THEN Returned(@, [session |-> storedSession[1]])
                                ELSE Thrown(@)]
  /\ env' = Env(p, IF ok THEN "ok" ELSE "local")
  /\ UNCHANGED <<net, storage, live>>
  /\ UNCHANGED Tables

\* --------------------------------------------------------- authService.signOut
\* supabase.auth.signOut() resolves, resolves with { error }, or rejects.
SignOutOutcomes == IF checkIsOnline(net) THEN {"ok", "error", "throw"} ELSE {"error", "throw"}

CallSignOut(p) ==
  /\ Idle(p)
  /\ st' = [st EXCEPT ![p] = Called(@, "signOut", << >>, "so_remote", [storage |-> storage])]
  /\ env' = "clean"
  /\ UNCHANGED <<net, storage, live>>
  /\ UNCHANGED Tables

\* await supabase.auth.signOut(): its result is not read; a rejection leaves
\* signOut at once
SO_SignOut(p, outcome) ==
  /\ st[p].pc = "so_remote"
  /\ outcome \in SignOutOutcomes
  /\ st' = [st EXCEPT ![p] = IF outcome = "throw" THEN Thrown(@)
                             ELSE [@ EXCEPT !.pc = "so_clear", !.log = <<outcome>>]]
  /\ live' = IF outcome = "ok" THEN << >> ELSE live
  /\ env' = Env(p, IF outcome = "ok" THEN "ok" ELSE "remote")
  /\ UNCHANGED <<net, storage>>
  /\ UNCHANGED Tables

\* await storageService.clearSession(): multiRemove of both keys, an error is
\* logged
SO_Clear(p, ok) ==
  /\ st[p].pc = "so_clear"
  /\ storage' = IF ok THEN NoSession ELSE storage
  /\ st' = [st EXCEPT ![p] = Returned(@, "undefined")]
  /\ env' = Env(p, IF ok THEN "ok" ELSE "local")
  /\ UNCHANGED <<net, live>>
  /\ UNCHANGED Tables

\* ------------------------------------------------------ authService.getSession
\* storageService.getSession(): the parsed entry, null when absent or on a
\* read error
storedSessionNone(ok) == << >>

storedSession(ok) ==
  IF ok /\ storage[KEYS.SESSION] # << >> THEN <<parse(storage[KEYS.SESSION][1])>> ELSE << >>

\* null, as a record so that it compares with { session }
null == [session_is_null |-> TRUE]

\* storedSession ? { session: storedSession } : null
SessionOrNull(found) == IF found # << >> THEN [session |-> found[1]] ELSE null

CallGetSession(p) ==
  /\ Idle(p)
  /\ st' = [st EXCEPT ![p] = Called(@, "getSession", << >>, "gs_remote",
                                   [storage |-> storage, live |-> live])]
  /\ env' = "clean"
  /\ UNCHANGED <<net, storage, live>>
  /\ UNCHANGED Tables

\* const { data: { session }, error } = await supabase.auth.getSession();
\* if (session) save and return it; if (error) throw error.  The client
\* answers with the session it holds, or with an error.
GS_Remote(p, outcome) ==
  /\ st[p].pc = "gs_remote"
  /\ st' = [st EXCEPT ![p] =
              IF outcome = "error" THEN [@ EXCEPT !.pc = "gs_fetch"]
              ELSE IF live # << >>
                   THEN [@ EXCEPT !.pc = "si_save", !.value = <<[session |-> live[1]]>>]
                   ELSE [@ EXCEPT !.pc = "gs_stored"]]
  /\ env' = Env(p, IF outcome = "error" THEN "remote" ELSE "ok")
  /\ UNCHANGED <<net, storage, live>>
  /\ UNCHANGED Tables

\* no online session: const storedSession = await storageService.getSession();
\* return storedSession ? { session: storedSession } : null
GS_Stored(p, ok) ==
  /\ st[p].pc = "gs_stored"
  /\ st' = [st EXCEPT ![p] = Returned(@, SessionOrNull(storedSession(ok)))]
  /\ env' = Env(p, IF ok THEN "ok" ELSE "local")
  /\ UNCHANGED <<net, storage, live>>
  /\ UNCHANGED Tables

\* catch: const networkState = await NetInfo.fetch();
\* if (!networkState.isConnected) ... else throw error
GS_Fetch(p) ==
  /\ st[p].pc = "gs_fetch"
  /\ st' = [st EXCEPT ![p] = IF isOffline(net)
                             THEN [@ EXCEPT !.pc = "gs_fallback", !.networkState = <<net>>]
                             ELSE [Thrown(@) EXCEPT !.networkState = <<net>>]]
  /\ UNCHANGED <<net, storage, live, env>>
  /\ UNCHANGED Tables

\* offline: return storedSession ? { session: storedSession } : null
GS_Fallback(p, ok) ==
  /\ st[p].pc = "gs_fallback"
  /\ st' = [st EXCEPT ![p] = Returned(@, SessionOrNull(storedSession(ok)))]
  /\ env' = Env(p, IF ok THEN "ok" ELSE "local")
  /\ UNCHANGED <<net, storage, live>>
  /\ UNCHANGED Tables

\* -------------------------------------------------- authService.refreshSession
CallRefreshSession(p) ==
  /\ Idle(p)
  /\ st' = [st EXCEPT ![p] = Called(@, "refreshSession", << >>, "rs_remote",
                                   [storage |-> storage, live |-> live])]
  /\ env' = "clean"
  /\ UNCHANGED <<net, storage, live>>
  /\ UNCHANGED Tables

\* const { data: { session }, error } = await supabase.auth.refreshSession();
\* if (error) throw error.  The backend renews only a session the client holds.
RS_Remote(p, ok) ==
  /\ st[p].pc = "rs_remote"
  /\ ok \in RemoteOutcomes
  /\ ok => live # << >>
  /\ \E session \in Sessions :
       /\ st' = [st EXCEPT ![p].pc = IF ok THEN "si_save" ELSE "rs_stored",
                           ![p].value = IF ok THEN <<[session |-> session]>> ELSE << >>]
       /\ live' = IF ok THEN <<session>> ELSE live
  /\ env' = Env(p, IF ok THEN "ok" ELSE "remote")
  /\ UNCHANGED <<net, storage>>
  /\ UNCHANGED Tables

\* catch: const storedSession = await storageService.getSession();
\* return storedSession ? { session: storedSession } : null
RS_Stored(p, ok) ==
  /\ st[p].pc = "rs_stored"
  /\ st' = [st EXCEPT ![p] = Returned(@, SessionOrNull(storedSession(ok)))]
  /\ env' = Env(p, IF ok THEN "ok" ELSE "local")
  /\ UNCHANGED <<net, storage, live>>
  /\ UNCHANGED Tables

\* One user of the sign-in screen and the network.
NextAuth ==
  \/ ReachabilityChange
  \/ \E credentials \in Credentials : CallSignIn(UI, credentials)
  \/ \E ok \in BOOLEAN : SI_Auth(UI, ok)
  \/ \E ok \in BOOLEAN : SI_SaveSession(UI, ok)
  \/ \E ok \in BOOLEAN : SI_SaveToken(UI, ok)
  \/ SI_Fetch(UI)
  \/ \E ok \in BOOLEAN : SI_Stored(UI, ok)
  \/ CallSignOut(UI)
  \/ \E outcome \in {"ok", "error", "throw"} : SO_SignOut(UI, outcome)
  \/ \E ok \in BOOLEAN : SO_Clear(UI, ok)
  \/ CallGetSession(UI)
  \/ \E outcome \in {"answer", "error"} : GS_Remote(UI, outcome)
  \/ \E ok \in BOOLEAN : GS_Stored(UI, ok)
  \/ GS_Fetch(UI)
  \/ \E ok \in BOOLEAN : GS_Fallback(UI, ok)
  \/ CallRefreshSession(UI)
  \/ \E ok \in BOOLEAN : RS_Remote(UI, ok)
  \/ \E ok \in BOOLEAN : RS_Stored(UI, ok)

SpecAuth == InitAuth /\ [][NextAuth]_vars

\* ================================================================ properties
\* The coordinator states of the attempt of caller p.
Receipted(p) == st[p].receipt # << >>

\* p is inside deductStockAfterCheckout or has just left it.
InDeduct(p) ==
  \/ st[p].ctx \in {"recheck", "prepare"}
  \/ st[p].pc \in {"bu_online", "bu_update", "bu_read", "bu_write", "deducted"}

RowsOf(list) == {list[i] : i \in 1..Len(list)}

\* The stock of product id in a product list: <<stock>>, or << >> when absent.
StockIn(list, id) ==
  LET rows == {r \in RowsOf(list) : r.id = id}
  IN IF rows = {} THEN << >> ELSE <<(CHOOSE r \in rows : TRUE).stock>>

StocksOf(list) == [id \in ProductIds |-> StockIn(list, id)]

RECURSIVE SumQuantity(_)
SumQuantity(rows) ==
  IF rows = {} THEN 0
  ELSE LET r == CHOOSE x \in rows : TRUE
       IN r.quantity + SumQuantity(rows \ {r})

\* Units of product id on all persisted transaction_items rows.
Sold(id) == SumQuantity({r \in transaction_items : r.product_id = id})

ItemsOf(transaction_id) ==
  {r \in transaction_items : r.transaction_id = transaction_id}

\* ---------------------------------------------------------------------- C1
\* C1: inventory is never oversold -- for every product, the quantities on all
\* persisted transaction_items rows add up to at most its stock at the start
\* (no action of Spec restocks).  Stated as claimed; the code violates it.
C1_NeverOversold == \A id \in ProductIds : Sold(id) <= initStock[id]

\* ---------------------------------------------------------------------- C2
\* C2: after any deductStockAfterCheckout calls with positive quantities,
\* under every interleaving of their steps, every stock in the remote table
\* and in the cached list is >= 0.
C2_StockNonNegative ==
  /\ \A r \in RowsOf(products) : r.stock >= 0
  /\ \A r \in RowsOf(cache) : r.stock >= 0

\* A caller whose view at the update preparation showed less stock than its
\* line asks for (the re-check had passed): the floor at zero is what decides.
C2_Witness ==
  \E p \in Callers :
    /\ st[p].pc \in {"bu_online", "bu_update", "bu_read", "bu_write"}
    /\ \E i \in 1..Len(st[p].items) :
         StockOrZero(Find(st[p].view, st[p].items[i].id)) < st[p].items[i].quantity

Available(view, id) ==
  IF \E r \in RowsOf(view) : r.id = id
  THEN (CHOOSE r \in RowsOf(view) : r.id = id).stock ELSE 0
ShortLines(request, view) ==
  {i \in 1..Len(request) : request[i].quantity > Available(view, request[i].id)}

\* C4: checkStockAvailability records a shortfall for a request line iff the
\* line asks for more than the view returned by getProducts has (a missing
\* product has 0); the shortfalls come in request order, each with the
\* requested and the observed available quantity; success iff there is none.
C4_ShortfallIff ==
  result # << >> =>
    LET ins == result[1].insufficientItems
        short == ShortLines(req, avail)
    IN /\ result[1].success <=> (ins = << >>)
       /\ result[1].success <=> (short = {})
       /\ Len(ins) = Cardinality(short)
       /\ \A i \in 1..Len(req) :
            (i \in short) <=>
              (\E j \in 1..Len(ins) :
                 /\ ins[j].id = req[i].id
                 /\ ins[j].requested = req[i].quantity
                 /\ ins[j].available = Available(avail, req[i].id))
       /\ \A j \in 1..Len(ins) :
            \E i \in short : /\ ins[j].id = req[i].id
                             /\ ins[j].requested = req[i].quantity
                             /\ ins[j].available = Available(avail, req[i].id)

\* A request with one line in stock and one short line (Scenario B's shape:
\* more is asked for than a product that is present has).
C4_Witness ==
  /\ result # << >>
  /\ Len(result[1].insufficientItems) = 1
  /\ Len(req) = 2
  /\ result[1].insufficientItems[1].available > 0

\* ---------------------------------------------------------------------- C5
\* C5: when the availability check at the start of a checkout reports a
\* shortfall for a cart line, the attempt issues no remote write -- no
\* transactions row, no transaction_items row, no stock update -- and ends with
\* the error shown; Step 1 is reached only with every line in stock in the view
\* of the check.
C5_NoWriteOnShortfall ==
  \A p \in Callers :
    /\ st[p].pc = "insert_tx" => ShortLines(st[p].cart, st[p].view) = {}
    /\ (st[p].error = <<"stock">> /\ st[p].atSubmit # << >>) =>
         /\ st[p].pc = "form" /\ ~st[p].processing /\ st[p].receipt = << >>
         /\ st[p].wrote = {}
         /\ transactions = st[p].atSubmit[1].transactions
         /\ transaction_items = st[p].atSubmit[1].transaction_items
         /\ products = st[p].atSubmit[1].products

\* An attempt of a cart with a line ended with the stock error, with the remote
\* store reachable.
C5_Witness ==
  \E p \in Callers :
    /\ st[p].error = <<"stock">> /\ st[p].atSubmit # << >>
    /\ st[p].cart # << >> /\ env = "clean"

\* ---------------------------------------------------------------------- C6
\* The sum of price * quantity over the lines of a cart.
RECURSIVE SumLines(_, _)
SumLines(cart, lines) ==
  IF lines = {} THEN 0
  ELSE LET i == CHOOSE x \in lines : TRUE
       IN cart[i].price * cart[i].quantity + SumLines(cart, lines \ {i})
CartTotal(cart) == SumLines(cart, 1..Len(cart))

\* C6: the checkout is never persisting while the cash is absent or below the
\* total; every transactions row has change = cash_given - total >= 0, and the
\* row of an attempt has the total of the cart as it was submitted.
C6_PaymentCovers ==
  /\ \A row \in transactions :
       row.change = row.cash_given - row.total /\ row.change >= 0
  /\ \A p \in Callers :
       /\ st[p].processing =>
            st[p].cashGiven # << >> /\ st[p].cashGiven[1] >= CartTotal(st[p].cart)
       /\ st[p].transaction # << >> =>
            /\ st[p].transaction[1].total = CartTotal(st[p].cart)
            /\ st[p].transaction[1].cash_given = st[p].cashGiven[1]

\* A row with change left, and a cart on the form that the cash does not cover.
C6_Witness ==
  /\ \E row \in transactions : row.change > 0
  /\ \E p \in Callers :
       /\ st[p].pc = "form" /\ st[p].cashGiven # << >>
       /\ st[p].cashGiven[1] < CartTotal(st[p].cart)

\* ---------------------------------------------------------------------- C7
\* The attempt of p failed at the transaction_items insert.
ItemsFailed(p) == st[p].error = <<"items">> /\ st[p].transaction # << >>

\* C7: when the transaction_items insert fails after the transactions insert
\* succeeded, the attempt ends in Failed, the transaction row stays in the
\* remote table with no item row, deductStockAfterCheckout is not called, and
\* no stock is deducted: the remote stock is what it was at submission and the
\* cached list is what it was or the list the availability check fetched.
\* Conversely the deduction runs only with the item rows in place.
C7_ItemsFailure ==
  \A p \in Callers :
    /\ ItemsFailed(p) =>
         /\ st[p].pc = "form" /\ ~st[p].processing /\ st[p].receipt = << >>
         /\ st[p].transaction[1] \in transactions
         /\ ItemsOf(st[p].transaction[1].id) = {}
         /\ st[p].wrote = {"tx"} /\ st[p].deductOk = << >> /\ st[p].pre = << >>
         /\ products = st[p].atSubmit[1].products
         /\ cache = st[p].atSubmit[1].cache \/ cache = products
    /\ (st[p].processing /\ InDeduct(p)) =>
         /\ st[p].transaction # << >>
         /\ Cardinality(ItemsOf(st[p].transaction[1].id)) = Len(st[p].cart)

C7_Witness == \E p \in Callers : ItemsFailed(p) /\ Len(st[p].cart) > 1

\* ---------------------------------------------------------------------- C8
\* C8: a checkout reaches Receipted only if the transaction insert succeeded,
\* the item insert succeeded and deductStockAfterCheckout reported success.
\* Stated as claimed; the code shows the receipt whatever the call returned.
C8_ReceiptOnlyAfterSuccess ==
  \A p \in Callers :
    Receipted(p) =>
      /\ "tx" \in st[p].wrote /\ "items" \in st[p].wrote
      /\ st[p].deductOk = <<TRUE>>

\* ---------------------------------------------------------------------- C9
\* Line i of the cart and the row say the same.
RowOfLine(row, line, transaction_id) ==
  /\ row.transaction_id = transaction_id
  /\ row.product_id = line.id
  /\ row.quantity = line.quantity
  /\ row.price = line.price

\* C9: at Receipted the remote store holds the transaction row of the receipt
\* and exactly one transaction_items row per cart line, with that transaction
\* id and the line's product id, quantity and unit price; no item row refers to
\* a transaction id that is not in the transactions table.
C9_ReceiptRows ==
  /\ \A row \in transaction_items :
       \E t \in transactions : t.id = row.transaction_id
  /\ \A p \in Callers :
       Receipted(p) =>
         LET t == st[p].receipt[1].transaction
             lines == st[p].receipt[1].items
             rows == ItemsOf(t.id)
         IN /\ t \in transactions
            /\ lines = st[p].cart
            /\ Cardinality(rows) = Len(lines)
            /\ \A i \in 1..Len(lines) :
                 Cardinality({r \in rows : RowOfLine(r, lines[i], t.id)}) = 1

\* A receipt for a cart of two lines.
C9_Witness ==
  \E p \in Callers : Receipted(p) /\ Len(st[p].receipt[1].items) = 2

\* --------------------------------------------------------------------- C10
\* Every line of the cart was in stock in the remote table at submission.
InStockAtSubmit(p) ==
  /\ st[p].atSubmit # << >>
  /\ ShortLines(st[p].cart, st[p].atSubmit[1].products) = {}

\* The stock of the line's product is `before` less the line's quantity.
LoweredFrom(now, before, line) ==
  StockIn(before, line.id) # << >> =>
    StockIn(now, line.id) = <<StockIn(before, line.id)[1] - line.quantity>>

PersistedAsComputed(p) ==
  LET t == st[p].receipt[1].transaction
  IN /\ t \in transactions
     /\ t.total = CartTotal(st[p].cart)
     /\ t.change = st[p].cashGiven[1] - t.total

Finished(p, name) == st[p].op = <<name>> /\ st[p].pc = "returned"
ReturnedValue(p, value) == st[p].ret = <<[kind |-> "return", value |-> value]>>
\* No local-store call of the running call failed.
LocalOk == env \in {"clean", "dirty"}
\* The call ran online and no remote call of it failed.
RemoteOk == env \in {"clean", "local"}

\* C11: updateProductStock called while online, when the remote update fails,
\* still sets the product's stock in the cached list and returns true; called
\* while offline it updates only the cache and returns true.  Stated as
\* claimed (with the local store working); the code returns false and leaves
\* the cache alone when the remote update fails.
C11_SetStockAlwaysCaches ==
  \A p \in Callers :
    (Finished(p, "setStock") /\ LocalOk) =>
      /\ ReturnedValue(p, TRUE)
      /\ cache = withStock(st[p].pre[1].cache, st[p].args.productId, st[p].args.newStock)
      /\ st[p].wasOnline = <<FALSE>> => products = st[p].pre[1].products

\* --------------------------------------------------------------------- C12
\* The last row of `updates` for product id whose remote update succeeded.
LastWritten(updates, log, id) ==
  LET rows == {i \in 1..Len(updates) : i <= Len(log) /\ log[i] /\ updates[i].productId = id}
  IN IF rows = {} THEN << >>
     ELSE <<updates[CHOOSE i \in rows : \A j \in rows : i >= j].newStock>>

\* The first row of `updates` for product id.
FirstRequested(updates, id) ==
  LET rows == {i \in 1..Len(updates) : updates[i].productId = id}
  IN IF rows = {} THEN << >>
     ELSE <<updates[CHOOSE i \in rows : \A j \in rows : i <= j].newStock>>

\* `after` is `before` with each stock replaced by what `chosen` gives for its
\* id, and nothing else changed.
Rewritten(after, before, chosen(_)) ==
  /\ Len(after) = Len(before)
  /\ \A i \in 1..Len(before) :
       after[i] = IF chosen(before[i].id) = << >> THEN before[i]
                  ELSE [before[i] EXCEPT !.stock = chosen(before[i].id)[1]]

\* The remote table after a batch call: every row was attempted when online,
\* none when offline, and each product has the stock of its last row that the
\* remote store accepted.
BatchRemote(p) ==
  LET updates == st[p].args
  IN /\ st[p].wasOnline = <<TRUE>> => Len(st[p].log) = Len(updates)
     /\ st[p].wasOnline = <<FALSE>> => st[p].log = << >>
     /\ Rewritten(products, st[p].pre[1].products,
                  LAMBDA id : LastWritten(updates, st[p].log, id))

BatchCache(p) ==
  Rewritten(cache, st[p].pre[1].cache, LAMBDA id : FirstRequested(st[p].args, id))

\* C12 as claimed: batchUpdateProductStock goes on past a failed row, rewrites
\* the cached list once, with the requested stock for every updated product in
\* it and every other cached product unchanged, and returns true.
C12_BatchRewritesCache ==
  \A p \in Callers :
    Finished(p, "batch") =>
      /\ ReturnedValue(p, TRUE)
      /\ BatchRemote(p)
      /\ BatchCache(p)

\* C12 amended: the cached list is rewritten as claimed when the read and the
\* write of the local store succeed; when the read fails the empty list is
\* saved, when the write fails the cache stays as it was; true is returned in
\* each case.
C12_BatchContinues ==
  \A p \in Callers :
    Finished(p, "batch") =>
      /\ ReturnedValue(p, TRUE)
      /\ BatchRemote(p)
      /\ LocalOk => BatchCache(p)
      /\ cache = << >> \/ cache = st[p].pre[1].cache \/ BatchCache(p)

\* A batch whose first row failed remotely and whose second row was written,
\* with the cache rewritten.
C12_Witness ==
  \E p \in Callers :
    /\ Finished(p, "batch") /\ LocalOk
    /\ st[p].log = <<FALSE, TRUE>>
    /\ products # st[p].pre[1].products
    /\ cache # st[p].pre[1].cache /\ cache # << >>

ValueOf(p) == st[p].ret[1].value
Threw(p) == st[p].ret[1].kind = "throw"

\* C14 as claimed: getProducts never throws; offline, or when the remote fetch
\* fails, it returns exactly the cached list and leaves the cache unchanged;
\* when the fetch succeeds it returns the fetched set.
C14_ListReturnsCache ==
  \A p \in Callers :
    Finished(p, "list") =>
      /\ ~Threw(p)
      /\ RemoteOk => ValueOf(p) = st[p].pre[1].products
      /\ ~RemoteOk => ValueOf(p) = st[p].pre[1].cache /\ cache = st[p].pre[1].cache

\* C14 amended: the fallback returns what storageService.getProducts gives:
\* the cached list, or the empty list when nothing is cached or the local read
\* fails; the cache is left unchanged on that path.
C14_ListNeverThrows ==
  \A p \in Callers :
    Finished(p, "list") =>
      /\ ~Threw(p)
      /\ RemoteOk => /\ ValueOf(p) = st[p].pre[1].products
                     /\ cache = ValueOf(p) \/ (~LocalOk /\ cache = st[p].pre[1].cache)
      /\ ~RemoteOk => /\ cache = st[p].pre[1].cache
                      /\ LocalOk => ValueOf(p) = cache
                      /\ ValueOf(p) = cache \/ (~LocalOk /\ ValueOf(p) = << >>)

\* An online list whose fetch failed returned a cached list that differs from
\* the remote table.
C14_Witness ==
  \E p \in Callers :
    /\ Finished(p, "list") /\ st[p].wasOnline = <<TRUE>> /\ env = "dirty"
    /\ ValueOf(p) = cache /\ cache # << >> /\ cache # products

\* --------------------------------------------------------------------- C15
\* The draft's fields are those of the product.
SameFields(product, draft) ==
  /\ product.name = draft.name /\ product.price = draft.price
  /\ product.barcode = draft.barcode /\ product.stock = draft.stock

\* The previous call of the caller was a create that ran offline and returned.
AfterOfflineCreate(p) ==
  /\ st[p].prev # << >>
  /\ st[p].prev[1].op = "create"
  /\ st[p].prev[1].wasOnline = <<FALSE>>
  /\ st[p].prev[1].ret.kind = "return"

\* What an offline create returns, and that it writes nothing remotely.
OfflineCreateReturns(p) ==
  /\ ~Threw(p)
  /\ ValueOf(p).id[1] = "temp_"
  /\ ValueOf(p).id = TempId(ValueOf(p).created_at)
  /\ ValueOf(p).created_at \in Instants
  /\ SameFields(ValueOf(p), st[p].args)
  /\ products = st[p].pre[1].products

\* C15 as claimed: an offline create returns the draft with a temp_ id and a
\* creation timestamp, writes nothing remotely, leaves the cache equal to the
\* new product prepended to the previous cached list, and an offline list
\* right after it returns that product first.
C15_OfflineCreatePrepends ==
  \A p \in Callers :
    /\ Finished(p, "create") /\ st[p].wasOnline = <<FALSE>> =>
         /\ OfflineCreateReturns(p)
         /\ cache = <<ValueOf(p)>> \o st[p].pre[1].cache
    /\ Finished(p, "list") /\ st[p].wasOnline = <<FALSE>> /\ AfterOfflineCreate(p) =>
         /\ ValueOf(p) # << >>
         /\ ValueOf(p)[1] = st[p].prev[1].ret.value

\* C15 amended: the same, provided the local-store read and write of the
\* create (and the read of the list) succeed; when one of them fails the cache
\* is either left as it was or holds the new product alone or prepended.
C15_OfflineCreate ==
  \A p \in Callers :
    /\ Finished(p, "create") /\ st[p].wasOnline = <<FALSE>> =>
         /\ OfflineCreateReturns(p)
         /\ LocalOk => cache = <<ValueOf(p)>> \o st[p].pre[1].cache
         /\ cache \in {st[p].pre[1].cache, <<ValueOf(p)>>,
                       <<ValueOf(p)>> \o st[p].pre[1].cache}
    /\ Finished(p, "list") /\ st[p].wasOnline = <<FALSE>> /\ AfterOfflineCreate(p)
         /\ st[p].prev[1].env \in {"clean", "dirty"} /\ LocalOk =>
         /\ ValueOf(p) # << >>
         /\ ValueOf(p)[1] = st[p].prev[1].ret.value

\* An offline list right after an offline create over a non-empty cache
\* returned the new product first, followed by the older products.
C15_Witness ==
  \E p \in Callers :
    /\ Finished(p, "list") /\ st[p].wasOnline = <<FALSE>> /\ AfterOfflineCreate(p)
    /\ st[p].prev[1].env = "dirty" /\ LocalOk
    /\ Len(ValueOf(p)) > 1
    /\ ValueOf(p)[1].id[1] = "temp_"
    /\ ValueOf(p)[1].name \in {d.name : d \in Drafts}

\* --------------------------------------------------------------------- C16
\* The list holds a product with the name, price and barcode of `product`.
Holds(list, product) ==
  \E i \in 1..Len(list) :
    /\ list[i].name = product.name /\ list[i].price = product.price
    /\ list[i].barcode = product.barcode

\* C16: a product created offline (and cached) is still returned by list()
\* once connectivity has returned and list() has synced with the remote
\* store, with the same name, price and barcode; only its id may differ.
C16_OfflineCreateSurvivesSync ==
  \A p \in Callers :
    Finished(p, "list") /\ st[p].wasOnline = <<TRUE>> /\ env = "clean"
      /\ AfterOfflineCreate(p) /\ st[p].prev[1].env \in {"clean", "dirty"} =>
      Holds(ValueOf(p), st[p].prev[1].ret.value)

\* --------------------------------------------------------------------- C17
\* The entries of the list whose id is not `id`, in the order of the list.
RECURSIVE Without(_, _)
Without(list, id) ==
  IF list = << >> THEN << >>
  ELSE (IF Head(list).id = id THEN << >> ELSE <<Head(list)>>) \o Without(Tail(list), id)

\* What deleteProduct does remotely: it throws exactly when it ran online and
\* the remote delete failed, and then neither store has changed; otherwise it
\* returns true, with the row gone from the remote table when it ran online.
DeleteRemote(p) ==
  /\ Threw(p) <=> (st[p].wasOnline = <<TRUE>> /\ ~RemoteOk)
  /\ Threw(p) => cache = st[p].pre[1].cache /\ products = st[p].pre[1].products
  /\ ~Threw(p) =>
       /\ ValueOf(p) = TRUE
       /\ products = IF st[p].wasOnline = <<TRUE>>
                     THEN Without(st[p].pre[1].products, st[p].args)
                     ELSE st[p].pre[1].products

\* C17 as claimed: after a delete that did not throw, the cache is the
\* previous cached list without the product, the others kept in order.
C17_DeleteRemovesFromCache ==
  \A p \in Callers :
    Finished(p, "delete") =>
      /\ DeleteRemote(p)
      /\ ~Threw(p) => cache = Without(st[p].pre[1].cache, st[p].args)

\* C17 amended: the same, provided the local-store read and write succeed;
\* a failed read empties the cache, a failed write leaves it as it was.
C17_Delete ==
  \A p \in Callers :
    Finished(p, "delete") =>
      /\ DeleteRemote(p)
      /\ ~Threw(p) =>
           /\ LocalOk => cache = Without(st[p].pre[1].cache, st[p].args)
           /\ cache \in {Without(st[p].pre[1].cache, st[p].args),
                         st[p].pre[1].cache, << >>}

\* An online delete of a cached product went through: the row is gone from
\* both stores and the other cached product is kept.
C17_Witness ==
  \E p \in Callers :
    /\ Finished(p, "delete") /\ st[p].wasOnline = <<TRUE>> /\ env = "clean"
    /\ ~Threw(p)
    /\ Len(st[p].pre[1].cache) > Len(cache) /\ cache # << >>
    /\ products # st[p].pre[1].products

\* --------------------------------------------------------------------- C18
\* `new` is `old` with every field of the patch taken from the patch.
PatchWins(new, old, product) ==
  /\ DOMAIN new = DOMAIN old
  /\ \A f \in DOMAIN old : new[f] = IF f \in DOMAIN product THEN product[f] ELSE old[f]

\* The list `after` is `before` in the same order, the entry with the id
\* overwritten with the patch and every other entry untouched.
PatchedIn(after, before, id, product) ==
  /\ Len(after) = Len(before)
  /\ \A i \in 1..Len(before) :
       IF before[i].id = id THEN PatchWins(after[i], before[i], product)
       ELSE after[i] = before[i]

\* What updateProduct returns and does remotely.  Offline: no remote write,
\* {id, ...patch} returned.  Online: it throws exactly when the remote update
\* failed, both stores then unchanged; otherwise it returns the remote row,
\* which is the old row overwritten with the patch.
UpdateRemote(p) ==
  LET id == st[p].args.id
      product == st[p].args.product
  IN IF st[p].wasOnline = <<FALSE>>
     THEN /\ ~Threw(p)
          /\ products = st[p].pre[1].products
          /\ DOMAIN ValueOf(p) = DOMAIN product \cup {"id"}
          /\ ValueOf(p).id = id
          /\ \A f \in DOMAIN product : ValueOf(p)[f] = product[f]
     ELSE /\ Threw(p) <=> ~RemoteOk
          /\ Threw(p) => cache = st[p].pre[1].cache /\ products = st[p].pre[1].products
          /\ ~Threw(p) =>
               /\ PatchedIn(products, st[p].pre[1].products, id, product)
               /\ <<ValueOf(p)>> = Find(products, id)

\* The cache as the claim describes it after an update that returned.
UpdateCache(p) ==
  IF st[p].wasOnline = <<FALSE>>
  THEN PatchedIn(cache, st[p].pre[1].cache, st[p].args.id, st[p].args.product)
  ELSE cache = replaced(st[p].pre[1].cache, st[p].args.id, ValueOf(p))

\* C18 as claimed: offline, update(id, patch) writes nothing remotely, replaces
\* the matching cached entry by the old entry merged with the patch (patch
\* wins), leaves the others and the order unchanged and returns {id, ...patch};
\* online it overwrites the matching cached entry with the row the remote
\* store returned; on remote failure it throws with the cache unchanged.
C18_UpdateRewritesCache ==
  \A p \in Callers :
    Finished(p, "update") => UpdateRemote(p) /\ (~Threw(p) => UpdateCache(p))

\* C18 amended: the same, provided the local-store read and write succeed; a
\* failed read empties the cache, a failed write leaves it as it was.
C18_Update ==
  \A p \in Callers :
    Finished(p, "update") =>
      /\ UpdateRemote(p)
      /\ ~Threw(p) => /\ LocalOk => UpdateCache(p)
                      /\ UpdateCache(p) \/ cache \in {st[p].pre[1].cache, << >>}

\* An offline update changed a cached product and left the other one as it
\* was; the remote table was not written.
C18_Witness ==
  \E p \in Callers :
    /\ Finished(p, "update") /\ st[p].wasOnline = <<FALSE>> /\ LocalOk
    /\ Len(cache) > 1 /\ cache # st[p].pre[1].cache
    /\ \E i \in 1..Len(cache) : cache[i] = st[p].pre[1].cache[i]
    /\ products = st[p].pre[1].products

\* --------------------------------------------------------------------- C19
\* The session the local store held when the call started.
PersistedBefore(p) == st[p].pre[1].storage[KEYS.SESSION]

\* C19: signIn persists and returns the session when the remote
\* authentication succeeds; when it fails and the device is offline (by the
\* online predicate of every other operation) it returns the last persisted
\* session; when it fails and the device is online the error propagates.
\* Stated for a working local store that held a session before the call.
C19_SignInFallsBackOffline ==
  \A p \in Callers :
    Finished(p, "signIn") /\ LocalOk /\ PersistedBefore(p) # << >> =>
      IF st[p].networkState = << >>
      THEN /\ ~Threw(p)
           /\ ValueOf(p).session \in Sessions
           /\ storage = Saved(ValueOf(p).session)
      ELSE IF ~checkIsOnline(st[p].networkState[1])
           THEN /\ ~Threw(p)
                /\ ValueOf(p) = [session |-> parse(PersistedBefore(p)[1])]
           ELSE Threw(p)

\* --------------------------------------------------------------------- C20
\* C20: after signOut() the local store holds neither user-session nor
\* auth-token, whatever the remote sign-out did (resolved, resolved with an
\* error, or rejected).  Stated for a working local store.
C20_SignOutClears ==
  \A p \in Callers :
    Finished(p, "signOut") /\ LocalOk => storage = NoSession

\* --------------------------------------------------------------------- C21
\* The remote call of the finished session operation answered with an error.
RemoteErred(p) == env \in {"dirty", "both"}

\* C21: getSession never throws; a live session is returned and persisted; on
\* a remote error it returns the cached session or null when the device is
\* offline, and null when it is online.  Stated for a working local store.
C21_GetSessionNeverThrows ==
  \A p \in Callers :
    Finished(p, "getSession") /\ LocalOk =>
      /\ ~Threw(p)
      /\ ~RemoteErred(p) /\ st[p].pre[1].live # << >> =>
           /\ ValueOf(p) = [session |-> st[p].pre[1].live[1]]
           /\ storage = Saved(st[p].pre[1].live[1])
      /\ RemoteErred(p) /\ ~checkIsOnline(st[p].networkState[1]) =>
           ValueOf(p) = SessionOrNull(IF PersistedBefore(p) = << >> THEN << >>
                                      ELSE <<parse(PersistedBefore(p)[1])>>)
      /\ RemoteErred(p) /\ checkIsOnline(st[p].networkState[1]) => ValueOf(p) = null

\* --------------------------------------------------------------------- C22
\* The value of a fallback to the session persisted before the call.
CachedOrNull(p) ==
  IF PersistedBefore(p) = << >> THEN null ELSE [session |-> PersistedBefore(p)[1][2]]

\* The session of a successful refresh was handed out by the backend and is
\* the one returned.
Renewed(p) ==
  /\ ValueOf(p).session \in Sessions
  /\ live = <<ValueOf(p).session>>

\* C22 as claimed: refreshSession never throws; when the remote refresh fails
\* it returns the cached session (null if none) and leaves the cache as it
\* was; when it succeeds it persists the session and returns it.
C22_RefreshFallsBack ==
  \A p \in Callers :
    Finished(p, "refreshSession") =>
      /\ ~Threw(p)
      /\ RemoteErred(p) => ValueOf(p) = CachedOrNull(p) /\ storage = st[p].pre[1].storage
      /\ ~RemoteErred(p) => Renewed(p) /\ storage = Saved(ValueOf(p).session)

\* C22 amended: the same, provided the local-store read and writes succeed;
\* a failed read makes the fallback null, a failed write leaves the
\* user-session or the auth-token entry as it was.
C22_Refresh ==
  \A p \in Callers :
    Finished(p, "refreshSession") =>
      /\ ~Threw(p)
      /\ RemoteErred(p) =>
           /\ storage = st[p].pre[1].storage
           /\ ValueOf(p) = IF LocalOk THEN CachedOrNull(p) ELSE null
      /\ ~RemoteErred(p) =>
           /\ Renewed(p)
           /\ LocalOk => storage = Saved(ValueOf(p).session)
           /\ \A key \in DOMAIN storage :
                storage[key] \in {Saved(ValueOf(p).session)[key], st[p].pre[1].storage[key]}

\* A refresh that failed remotely returned the session persisted earlier.
C22_Witness ==
  \E p \in Callers :
    /\ Finished(p, "refreshSession") /\ RemoteErred(p) /\ LocalOk
    /\ ValueOf(p) = [session |-> EarlierSession]
    /\ storage = Saved(EarlierSession)

\* --------------------------------------------------------------------- C23
\* C23: the checkout clears the cart only when the caller acknowledges a
\* receipt: every step taken while the checkout modal is open (submitting,
\* the persistence steps, a failure, a cancel or dismissal) leaves the cart
\* exactly as it was, except the Done acknowledgement of a shown receipt,
\* which empties it and closes the modal.
C23_CartClearedOnDone ==
  [][\A p \in Callers :
       st[p].pc # "orders" =>
         \/ st'[p].cart = st[p].cart
         \/ /\ st[p].pc = "receipt" /\ st[p].receipt # << >>
            /\ st'[p].cart = << >> /\ st'[p].pc = "orders"]_vars

\* A receipt is on screen, the sale is recorded and the cart still holds the
\* lines sold: nothing has cleared it before the acknowledgement.
C23_Witness ==
  \E p \in Callers :
    /\ st[p].pc = "receipt" /\ st[p].receipt # << >>
    /\ st[p].cart # << >> /\ st[p].receipt[1].items = st[p].cart
    /\ transactions # {}

\* --------------------------------------------------------------------- C24
\* C24: after any sequence of addToCart (tap, or scan with a chosen quantity)
\* and updateQuantity (+/-), every cart line has a quantity that is positive
\* and no greater than the stock of its product.
C24_QuantityWithinStock ==
  \A p \in Callers :
    \A i \in 1..Len(st[p].cart) :
      /\ st[p].cart[i].quantity > 0
      /\ StockIn(products, st[p].cart[i].id) # << >>
      /\ st[p].cart[i].quantity <= StockIn(products, st[p].cart[i].id)[1]

\* --------------------------------------------------------------------- C25
\* C25: every operation branches on one and the same online predicate: on
\* the reachability signal a session operation (signIn, getSession) has
\* read, its offline test agrees with checkIsOnline of the product and stock
\* operations.
C25_OnePredicate ==
  \A p \in Callers :
    st[p].networkState # << >> =>
      (isOffline(st[p].networkState[1]) <=> ~checkIsOnline(st[p].networkState[1]))

\* --------------------------------------------------------------------- C26
\* A product call of the caller has ended, ran online from a cache that
\* mirrored the remote table, and reported success.
OnlineSuccess(p) ==
  /\ st[p].pc = "returned"
  /\ st[p].op \in {<<"list">>, <<"create">>, <<"update">>, <<"delete">>,
                   <<"setStock">>, <<"batch">>}
  /\ st[p].wasOnline = <<TRUE>>
  /\ RowsOf(st[p].pre[1].cache) = RowsOf(st[p].pre[1].products)
  /\ ~Threw(p)
  /\ st[p].op \in {<<"setStock">>, <<"batch">>} => ValueOf(p) = TRUE

\* C26: for a single client, every online call that starts from a cache
\* mirroring the remote table and reports success leaves the cached product
\* set equal to the remote product set (hence so does any sequence of such
\* calls).  Stated for calls whose remote writes and local-store calls all
\* succeeded.
C26_CacheMirrorsRemote ==
  \A p \in Callers : OnlineSuccess(p) /\ env = "clean" => RowsOf(cache) = RowsOf(products)

\* ------------------------------------------- every awaited call resolves
\* The steps of a running attempt of handleSubmitTransaction: each awaited
\* remote or local call resolves (with either outcome), the synchronous code
\* after it runs, and the timer of the receipt fires.
Resolves(p) ==
  \/ \E ok \in BOOLEAN : InsertTransaction(p, ok)
  \/ \E ok \in BOOLEAN : InsertItems(p, ok)
  \/ GP_CheckIsOnline(p)
  \/ \E ok \in BOOLEAN : GP_Select(p, ok)
  \/ \E ok \in BOOLEAN : GP_Save(p, ok)
  \/ \E ok \in BOOLEAN : GP_Local(p, ok)
  \/ BU_CheckIsOnline(p)
  \/ \E ok \in BOOLEAN : BU_Update(p, ok)
  \/ \E ok \in BOOLEAN : BU_Read(p, ok)
  \/ \E ok \in BOOLEAN : BU_Write(p, ok)
  \/ SetReceipt(p)
  \/ ProcessingTimeout(p)

\* One cart and its attempts: the cart is filled before the first sale is
\* recorded, every later attempt (a retry after a failure, a second sale after
\* Cancel) is made with the cart as it is.
NextLive ==
  \/ NetChange
  \/ /\ transactions = {}
     /\ \E product \in Displayed : AddToCart(UI, product)
  \/ /\ transactions = {}
     /\ \E i \in 1..Cardinality(ProductIds), delta \in {-1, 1} : UpdateQuantity(UI, i, delta)
  \/ ProceedToCheckout(UI)
  \/ Cancel(UI)
  \/ \E text \in CashTexts : handleCashInputChange(UI, text)
  \/ handleSubmitTransaction(UI)
  \/ Resolves(UI)
  \/ handleDone(UI)

\* No call of a running attempt stays pending for ever, and the timer fires.
\* What the user does and what the network does are left unconstrained.
SpecLive == Init /\ [][NextLive]_vars /\ WF_vars(Resolves(UI))

\* C27: every started checkout attempt ends: the processing state is always
\* eventually left, to the receipt (Receipted) or to the form with the error
\* (Failed), and it is left with the cart it was started with; from Failed the
\* same cart can be submitted again.
AttemptFailed(p) ==
  /\ st[p].pc = "form" /\ ~st[p].processing
  /\ st[p].error # << >> /\ st[p].atSubmit # << >>

AttemptReceipted(p) ==
  st[p].pc = "receipt" /\ ~st[p].processing /\ st[p].receipt # << >>

C27_CheckoutTerminates ==
  /\ \A p \in Callers :
       st[p].processing ~> (AttemptFailed(p) \/ AttemptReceipted(p))
  /\ [][\A p \in Callers : st[p].processing => st'[p].cart = st[p].cart]_vars
  /\ [](\A p \in Callers :
          AttemptFailed(p) /\ MoreSales => ENABLED handleSubmitTransaction(p))

C27_Witness ==
  \E p \in Callers : AttemptFailed(p) /\ "tx" \in st[p].wrote /\ st[p].cart # << >>

\* --------------------------------------------------------------------- C28
\* C28: when an online list() whose remote fetch succeeded returns the
\* fetched set R, the products cache is exactly R, whatever the cache write
\* did.  (One caller: nothing else writes the cache between the write and the
\* return.)
C28_ListOverwritesCache ==
  \A p \in Callers :
    (Finished(p, "list") /\ st[p].wasOnline = <<TRUE>> /\ RemoteOk) =>
      /\ ValueOf(p) = st[p].pre[1].products
      /\ cache = ValueOf(p)

\* --------------------------------------------------------------------- C29
\* The quantity of product id that the lines of a request ask for.
RECURSIVE AskedOf(_, _)
AskedOf(items, id) ==
  IF items = << >> THEN 0
  ELSE (IF Head(items).id = id THEN Head(items).quantity ELSE 0) + AskedOf(Tail(items), id)

\* The quantity of product id that the calls of the callers in S ask for.
RECURSIVE AskedBy(_, _)
AskedBy(S, id) ==
  IF S = {} THEN 0
  ELSE LET p == CHOOSE q \in S : TRUE
       IN AskedOf(st[p].items, id) + AskedBy(S \ {p}, id)

\* The deductStockAfterCheckout call of p returned true with its remote row
\* update done.
DeductedTrue(p) ==
  st[p].pc = "returned" /\ st[p].deductOk = <<TRUE>> /\ "stock" \in st[p].wrote

\* C29: once every deductStockAfterCheckout call has returned true (each with
\* its remote update done), under any interleaving of their steps, the remote
\* stock of a product is its initial stock less the sum of the quantities
\* deducted, when that difference is not negative.
C29_NoLostUpdate ==
  (\A p \in Callers : DeductedTrue(p)) =>
    \A id \in ProductIds :
      initStock[id] - AskedBy(Callers, id) >= 0 =>
        \A r \in RowsOf(products) :
          r.id = id => r.stock = initStock[id] - AskedBy(Callers, id)

\* --------------------------------------------------------------------- C30
\* AuthContext: the signOut mutation of the user, and next to it the call the
\* provider makes on its own: refreshSession from the NetInfo listener, or
\* getSession from the ["auth"] query that the listener invalidates.
Listener == CHOOSE p \in Callers : p # UI

\* The provider's call starts before the signOut has completed.
SignOutPending == ~(st[UI].op = <<"signOut">> /\ st[UI].pc = "returned")

\* The local store works: every AsyncStorage call succeeds.
NextSession ==
  \/ ReachabilityChange
  \/ CallSignOut(UI)
  \/ \E outcome \in {"ok", "error", "throw"} : SO_SignOut(UI, outcome)
  \/ SO_Clear(UI, TRUE)
  \/ SignOutPending /\ CallRefreshSession(Listener)
  \/ \E ok \in BOOLEAN : RS_Remote(Listener, ok)
  \/ RS_Stored(Listener, TRUE)
  \/ SignOutPending /\ CallGetSession(Listener)
  \/ \E outcome \in {"answer", "error"} : GS_Remote(Listener, outcome)
  \/ GS_Stored(Listener, TRUE)
  \/ GS_Fetch(Listener)
  \/ GS_Fallback(Listener, TRUE)
  \/ SI_SaveSession(Listener, TRUE)
  \/ SI_SaveToken(Listener, TRUE)

SpecSession == InitAuth /\ [][NextSession]_vars

\* C30: once signOut() has returned and every getSession()/refreshSession()
\* started before that has ended too, the local store holds no user-session
\* and no auth-token.  Stated for a working local store and a signOut whose
\* remote call succeeded.
C30_SignOutIsFinal ==
  (/\ Finished(UI, "signOut") /\ ~Threw(UI) /\ st[UI].log = <<"ok">>
   /\ st[Listener].pc \in {"orders", "returned"}) =>
    /\ storage[KEYS.SESSION] = << >>
    /\ storage[KEYS.AUTH_TOKEN] = << >>

\* --------------------------------------------------------------------- C31
\* What is typed into the sign-in form: the credentials of the account the
\* backend knows, or credentials it accepts for no account.
Stranger == [email |-> "bob", password |-> "guess"]
Typed == Credentials \cup {Stranger}

\* The sign-in screen against a backend that accepts only the credentials of
\* an account (signInWithPassword answers { error } for any other pair).
NextSignIn ==
  \/ ReachabilityChange
  \/ \E credentials \in Typed : CallSignIn(UI, credentials)
  \/ \E ok \in BOOLEAN : (ok => st[UI].args \in Credentials) /\ SI_Auth(UI, ok)
  \/ \E ok \in BOOLEAN : SI_SaveSession(UI, ok)
  \/ \E ok \in BOOLEAN : SI_SaveToken(UI, ok)
  \/ SI_Fetch(UI)
  \/ \E ok \in BOOLEAN : SI_Stored(UI, ok)

SpecSignIn == InitAuth /\ [][NextSignIn]_vars

\* C31: signIn returns a session only for credentials the backend accepted: a
\* call with credentials the backend accepts for no account ends with the
\* error, whatever session an earlier sign-in left in the local store.
C31_SessionOnlyIfAccepted ==
  \A p \in Callers :
    (Finished(p, "signIn") /\ st[p].args \notin Credentials) => Threw(p)

\* --------------------------------------------------------------------- C32
\* The previous call of the caller was a delete that returned true, with the
\* local store working.
AfterDelete(p) ==
  /\ st[p].prev # << >>
  /\ st[p].prev[1].op = "delete"
  /\ st[p].prev[1].ret.kind = "return"
  /\ st[p].prev[1].env \in {"clean", "dirty"}

\* C32: once delete(id) has returned true, online or offline, a later list()
\* returns no product with that id, whatever the connectivity at the time of
\* the list.  Stated for a working local store.
C32_DeletedStaysDeleted ==
  \A p \in Callers :
    (Finished(p, "list") /\ AfterDelete(p) /\ LocalOk) =>
      \A i \in 1..Len(ValueOf(p)) : ValueOf(p)[i].id # st[p].prev[1].args

\* --------------------------------------------------------------------- C33
\* C33: one sale, one transaction.  Under SpecLive every attempt is made with
\* the same cart once a transaction row exists, so at the receipt every row
\* of the remote table was created by the attempts for that cart: there is
\* exactly one.
C33_OneSaleOneTransaction ==
  \A p \in Callers :
    AttemptReceipted(p) => Cardinality(transactions) = 1

\* --------------------------------------------------------------------- C34
\* C34: the product ids of the cached list are pairwise distinct after any
\* sequence of create calls, also after offline creates that read the same
\* instant of the millisecond clock.
C34_CacheIdsDistinct ==
  \A i, j \in 1..Len(cache) : i # j => cache[i].id # cache[j].id

\* --------------------------------------------------------------------- C35
\* Two screens of the client at work at once: the add-product form saves
\* (createProduct) while the stock screen sets a stock (updateProductStock).
\* Each makes one call; their awaits interleave; the local store works.
Clerk == CHOOSE p \in Callers : p # UI

NextWriters ==
  \/ NetChange
  \/ st[UI].calls = 0 /\ \E product \in Drafts : CallCreate(UI, product)
  \/ CP_CheckIsOnline(UI)
  \/ \E ok \in BOOLEAN : CP_Insert(UI, ok)
  \/ CP_Read(UI, TRUE)
  \/ CP_Write(UI, TRUE)
  \/ st[Clerk].calls = 0
       /\ \E id \in KnownIds, n \in StockValues : CallSetStock(Clerk, id, n)
  \/ US_CheckIsOnline(Clerk)
  \/ \E ok \in BOOLEAN : US_Update(Clerk, ok)
  \/ US_Read(Clerk, TRUE)
  \/ US_Write(Clerk, TRUE)

SpecWriters == InitMirror /\ [][NextWriters]_vars

\* C35: when a create and a stock update that ran at the same time have both
\* reported success, the cached list holds the created product and shows the
\* stock that was set, under every interleaving of their cache reads and
\* writes.
C35_CacheWritesKept ==
  (/\ Finished(UI, "create") /\ ~Threw(UI)
   /\ Finished(Clerk, "setStock") /\ ReturnedValue(Clerk, TRUE)) =>
    /\ \E i \in 1..Len(cache) : cache[i].id = ValueOf(UI).id
    /\ \A i \in 1..Len(cache) :
         cache[i].id = st[Clerk].args.productId => cache[i].stock = st[Clerk].args.newStock

\* --------------------------------------------------------------------- C36
\* The checkout where connectivity changes only between attempts: an attempt
\* started offline has the remote store unreachable for its whole duration.
NextOutage ==
  \/ ~st[UI].processing /\ NetChange
  \/ /\ transactions = {}
     /\ \E product \in Displayed : AddToCart(UI, product)
  \/ /\ transactions = {}
     /\ \E i \in 1..Cardinality(ProductIds), delta \in {-1, 1} : UpdateQuantity(UI, i, delta)
  \/ ProceedToCheckout(UI)
  \/ Cancel(UI)
  \/ \E text \in CashTexts : handleCashInputChange(UI, text)
  \/ handleSubmitTransaction(UI)
  \/ Resolves(UI)
  \/ handleDone(UI)

SpecOutage == Init /\ [][NextOutage]_vars

\* C36: no step of a checkout attempt that runs with the remote store
\* unreachable writes a transaction or a transaction_items row or changes a
\* stock, remotely or in the cached list, and none shows the receipt; the
\* attempt ends in Failed: the form with the error.
C36_OutageFailsClean ==
  [][\A p \in Callers :
       (st[p].processing /\ net = offline) =>
         /\ transactions' = transactions
         /\ transaction_items' = transaction_items
         /\ StocksOf(products') = StocksOf(products)
         /\ StocksOf(cache') = StocksOf(cache)
         /\ st'[p].receipt = << >>
         /\ st'[p].pc \notin {"insert_items", "deducted", "receipt_wait", "receipt"}
         /\ ~st'[p].processing => st'[p].pc = "form" /\ st'[p].error # << >>]_vars

\* An attempt made offline passed the stock check on the cached list and
\* failed at the transaction insert.
C36_Witness ==
  \E p \in Callers :
    /\ AttemptFailed(p) /\ net = offline /\ env = "dirty"
    /\ st[p].error = <<"transaction">> /\ st[p].wrote = {}
    /\ transactions = {}

\* --------------------------------------------------------------------- C37
\* C37: the cart never holds two lines of one product id, whatever sequence
\* of addToCart (a tap or a scan) and updateQuantity made it; so the quantity
\* of a line is the whole quantity the cart asks of its product, which is
\* what the per-line loop of checkStockAvailability compares with the stock.
C37_OneLinePerProduct ==
  \A p \in Callers :
    /\ \A i, j \in 1..Len(st[p].cart) : i # j => st[p].cart[i].id # st[p].cart[j].id
    /\ \A i \in 1..Len(st[p].cart) :
         AskedOf(st[p].cart, st[p].cart[i].id) = st[p].cart[i].quantity

\* A cart of two lines, one of them raised by a second add of its product.
C37_Witness ==
  \E p \in Callers :
    /\ Len(st[p].cart) = 2
    /\ \E i \in 1..2 : st[p].cart[i].quantity >= 2
====
